---- MODULE Spec2Model ----
(***************************************************************************)
(* Model of the server-side GraphQL client: createServerClient.fetch       *)
(* (src/src/server.ts) driving the request strategies standardPost,        *)
(* mutationPost, apqQuery and apqPostFallback (src/src/lib/request.ts),    *)
(* with the operation helpers of src/src/lib/operation.ts, pruneObject of  *)
(* src/src/lib/helpers.ts and getDocumentType of lib/document.             *)
(*                                                                         *)
(* Strings are sequences of one-character strings, so that trim,           *)
(* startsWith, includes and the operation-name regular expression are      *)
(* computed as the code computes them.  JavaScript values are records      *)
(* [t |-> type tag, v |-> payload].                                        *)
(***************************************************************************)
EXTENDS Integers, Sequences, FiniteSets, TLC

(***************************************************************************)
(* Strings                                                                 *)
(***************************************************************************)
Whitespace == {" ", "\n", "\t"}

NameChars == {"a","b","c","d","e","f","g","h","i","j","k","l","m","n","o","p","q","r","s","t","u","v","w","x","y","z","A","B","C","D","E","F","G","H","I","J","K","L","M","N","O","P","Q","R","S","T","U","V","W","X","Y","Z","0","1","2","3","4","5","6","7","8","9","_"}

KwQuery == <<"q","u","e","r","y">>
KwMutation == <<"m","u","t","a","t","i","o","n">>
KwSubscription == <<"s","u","b","s","c","r","i","p","t","i","o","n">>
FallbackName == <<"(","G","r","a","p","h","Q","L",")">>
PQNF == <<"P","e","r","s","i","s","t","e","d","Q","u","e","r","y","N","o","t","F","o","u","n","d">>
PQNF_CODE == <<"P","E","R","S","I","S","T","E","D","_","Q","U","E","R","Y","_","N","O","T","_","F","O","U","N","D">>

\* s.substring(i-1, i-1+n) in 1-based indexing, clipped to the string
Slice(s, i, n) ==
  [k \in 1..(IF i + n - 1 <= Len(s) THEN n ELSE IF i > Len(s) THEN 0 ELSE Len(s) - i + 1) |-> s[i + k - 1]]

\* String.prototype.startsWith
StartsWith(s, p) == Len(s) >= Len(p) /\ Slice(s, 1, Len(p)) = p

\* the match of p in s at position i
MatchesAt(s, p, i) == i + Len(p) - 1 <= Len(s) /\ Slice(s, i, Len(p)) = p

\* String.prototype.includes
Includes(s, p) == \E i \in 1..(Len(s) + 1) : MatchesAt(s, p, i)

\* String.prototype.trim
RECURSIVE TrimStart(_)
TrimStart(s) == IF Len(s) > 0 /\ s[1] \in Whitespace THEN TrimStart(Tail(s)) ELSE s

RECURSIVE TrimEnd(_)
TrimEnd(s) ==
  IF Len(s) > 0 /\ s[Len(s)] \in Whitespace THEN TrimEnd(SubSeq(s, 1, Len(s) - 1)) ELSE s

Trim(s) == TrimEnd(TrimStart(s))

\* length of the longest run of characters of set cs in s that starts at i
RECURSIVE RunLength(_, _, _)
RunLength(s, cs, i) ==
  IF i <= Len(s) /\ s[i] \in cs THEN 1 + RunLength(s, cs, i + 1) ELSE 0

(***************************************************************************)
(* JavaScript values                                                       *)
(***************************************************************************)
Undefined == [t |-> "undefined", v |-> <<>>]
JNull == [t |-> "null", v |-> <<>>]
JStr(s) == [t |-> "string", v |-> s]
JNum(n) == [t |-> "number", v |-> n]
JArr(a) == [t |-> "array", v |-> a]
JObj(f) == [t |-> "object", v |-> f]

\* ToBoolean
Truthy(x) ==
  CASE x.t \in {"undefined", "null"} -> FALSE
    [] x.t = "string" -> Len(x.v) > 0
    [] x.t = "number" -> x.v # 0
    [] OTHER -> TRUE

\* Object.keys(x).length for a value that is not undefined or null
KeyCount(x) ==
  CASE x.t = "string" -> Len(x.v)
    [] x.t = "array" -> Len(x.v)
    [] x.t = "object" -> Cardinality(DOMAIN x.v)
    [] OTHER -> 0

\* x.name for an object value (undefined when the key is missing)
Prop(x, name) ==
  IF x.t = "object" /\ name \in DOMAIN x.v THEN x.v[name] ELSE Undefined

(***************************************************************************)
(* lib/document and lib/operation                                          *)
(***************************************************************************)
\* a variant that takes for a query every document that does not start with "mutation"
getDocumentType_unlessMutation(document) ==
  IF StartsWith(Trim(document), KwMutation) THEN "mutation" ELSE "query"

getDocumentType(document) ==
  IF StartsWith(Trim(document), KwQuery) THEN "query" ELSE "mutation"

\* the position and keyword where /(?:query|mutation|subscription)\s+([A-Za-z0-9_]+)/ matches
RegexMatchAt(document, i) ==
  \E kw \in {KwQuery, KwMutation, KwSubscription} :
    /\ MatchesAt(document, kw, i)
    /\ RunLength(document, Whitespace, i + Len(kw)) > 0
    /\ RunLength(document, NameChars,
                 i + Len(kw) + RunLength(document, Whitespace, i + Len(kw))) > 0

RegexGroup(document, i) ==
  LET kw == CHOOSE k \in {KwQuery, KwMutation, KwSubscription} : MatchesAt(document, k, i)
      ws == RunLength(document, Whitespace, i + Len(kw))
      st == i + Len(kw) + ws
  IN Slice(document, st, RunLength(document, NameChars, st))

\* a variant without the fixed label: the name is empty when the pattern does not match
extractOperationName_noFallback(document) ==
  LET hits == {i \in 1..Len(document) : RegexMatchAt(document, i)}
  IN IF hits = {} THEN <<>>
     ELSE LET first == CHOOSE i \in hits : \A j \in hits : i <= j
          IN RegexGroup(document, first)

extractOperationName(document) ==
  LET hits == {i \in 1..Len(document) : RegexMatchAt(document, i)}
  IN IF hits = {} THEN FallbackName
     ELSE LET first == CHOOSE i \in hits : \A j \in hits : i <= j
              name == RegexGroup(document, first)
          IN IF Len(name) > 0 THEN name ELSE FallbackName

createOperation(document, variables, documentId) ==
  [ operationName |-> extractOperationName(document),
    document |-> document,
    variables |-> variables,
    documentId |-> documentId ]

\* a variant whose digest reads only the first characters of the document
Sha256Hex_prefix(document) ==
  <<"sha256">> \o [i \in 1..(IF Len(document) < 5 THEN Len(document) ELSE 5) |-> document[i]]

\* sha-256 hex digest, treated as an injective function of the document text
Sha256Hex(document) == <<"sha256">> \o document

getPersistedQueryExtension(document) ==
  JObj([persistedQuery |-> JObj([version |-> JNum(1), sha256Hash |-> JStr(Sha256Hex(document))])])

\* JSON.stringify of a value: the serialized text is kept as a wrapper around the value
JsonStringify(x) == [json |-> x]

(***************************************************************************)
(* lib/helpers: pruneObject                                                *)
(***************************************************************************)
\* a variant that keeps every truthy value
objectIsNotEmpty_truthy(value) == Truthy(value)

objectIsNotEmpty(value) == Truthy(value) /\ KeyCount(value) > 0

\* JSON.parse(JSON.stringify(x)): undefined properties vanish, undefined array items become null
RECURSIVE JsonRoundTrip(_)
JsonRoundTrip(x) ==
  CASE x.t = "object" ->
         JObj([k \in {n \in DOMAIN x.v : x.v[n].t # "undefined"} |-> JsonRoundTrip(x.v[k])])
    [] x.t = "array" ->
         JArr([i \in 1..Len(x.v) |-> IF x.v[i].t = "undefined" THEN JNull ELSE JsonRoundTrip(x.v[i])])
    [] OTHER -> x

\* object is a function from the keys of the payload to their values
pruneObject(object) ==
  JsonRoundTrip(JObj([k \in {n \in DOMAIN object : objectIsNotEmpty(object[n])} |-> object[k]]))

createRequestBody(payload) == JsonStringify(pruneObject(payload))

\* the keys of a serialized request body
BodyKeys(body) == DOMAIN body.json.v

\* a variant that sets the variables parameter for every truthy variables value
createUrl_variablesWhenTruthy(url, operation, extensions) ==
  [ endpoint |-> url,
    searchParams |->
      [op |-> JStr(operation.operationName)]
      @@ (IF Truthy(operation.documentId)
            THEN [documentId |-> operation.documentId] ELSE <<>>)
      @@ (IF Truthy(operation.variables)
            THEN [variables |-> JsonStringify(operation.variables)] ELSE <<>>)
      @@ (IF Truthy(extensions)
            THEN [extensions |-> JsonStringify(extensions)] ELSE <<>>) ]

createUrl(url, operation, extensions) ==
  [ endpoint |-> url,
    searchParams |->
      [op |-> JStr(operation.operationName)]
      @@ (IF Truthy(operation.documentId)
            THEN [documentId |-> operation.documentId] ELSE <<>>)
      @@ (IF Truthy(operation.variables) /\ KeyCount(operation.variables) > 0
            THEN [variables |-> JsonStringify(operation.variables)] ELSE <<>>)
      @@ (IF Truthy(extensions)
            THEN [extensions |-> JsonStringify(extensions)] ELSE <<>>) ]

(***************************************************************************)
(* lib/request: the not-found detector                                     *)
(* The result is "true", "false" or "throw" (a TypeError raised inside).   *)
(***************************************************************************)
\* error.message?.includes("PersistedQueryNotFound")
MessageIncludes(message) ==
  CASE message.t \in {"undefined", "null"} -> "false"
    [] message.t = "string" -> IF Includes(message.v, PQNF) THEN "true" ELSE "false"
    [] message.t = "array" ->
         IF \E i \in 1..Len(message.v) : message.v[i].t = "string" /\ message.v[i].v = PQNF
           THEN "true" ELSE "false"
    [] OTHER -> "throw"

\* error.extensions?.code === "PERSISTED_QUERY_NOT_FOUND"
ExtensionsCodeMatches(err) ==
  LET extensions == Prop(err, "extensions")
      code == Prop(extensions, "code")
  IN code.t = "string" /\ code.v = PQNF_CODE

\* the callback given to errors.some
ErrorMatches(err) ==
  IF err.t \notin {"object", "array"} THEN "false"
  ELSE LET m == MessageIncludes(Prop(err, "message"))
       IN IF m # "false" THEN m
          ELSE IF ExtensionsCodeMatches(err) THEN "true" ELSE "false"

RECURSIVE SomeErrorMatches(_, _)
SomeErrorMatches(errors, i) ==
  IF i > Len(errors) THEN "false"
  ELSE LET r == ErrorMatches(errors[i])
       IN IF r # "false" THEN r ELSE SomeErrorMatches(errors, i + 1)

\* a variant that takes every non-empty errors array for the not-found signal
isPersistedQueryNotFoundError_anyError(responseData) ==
  IF responseData.t = "object" /\ "errors" \in DOMAIN responseData.v
    THEN LET errors == responseData.v.errors
         IN IF errors.t = "array" /\ Len(errors.v) > 0 THEN "true" ELSE "false"
    ELSE "false"

isPersistedQueryNotFoundError(responseData) ==
  IF responseData.t = "object" /\ "errors" \in DOMAIN responseData.v
    THEN LET errors == responseData.v.errors
         IN IF errors.t = "array" THEN SomeErrorMatches(errors.v, 1) ELSE "false"
    ELSE "false"

(***************************************************************************)
(* Inputs: documents, document ids, variables, transport answers           *)
(***************************************************************************)
DocQueryA == <<"q","u","e","r","y"," ","A","{","a","}">>
DocQueryLead == <<"\n"," ","q","u","e","r","y"," ","B","{","b","}","\n">>
DocQueryAnon == <<"q","u","e","r","y","{","c","}">>
DocMutation == <<"m","u","t","a","t","i","o","n"," ","M","{","m","}">>
DocSubscription == <<"s","u","b","s","c","r","i","p","t","i","o","n"," ","S","{","s","}">>
DocShorthand == <<"{","a","}">>

Documents == {DocQueryA, DocQueryLead, DocQueryAnon, DocMutation, DocSubscription, DocShorthand}

\* what createDocumentIdFn may return: undefined, an empty string, an id
DocumentIds == {Undefined, JStr(<<>>), JStr(<<"i","d","1">>)}

\* the variables option: undefined, an empty object, a non-empty object
VariableValues == {Undefined, JObj(<<>>), JObj([id |-> JStr(<<"7">>)])}

Endpoint == "http://localhost:3000/graphql"

MsgUnauthorized == <<"U","n","a","u","t","h","o","r","i","z","e","d">>
MsgWrapped == <<"x"," ","P","e","r","s","i","s","t","e","d","Q","u","e","r","y","N","o","t","F","o","u","n","d","!">>

\* the response bodies the server may answer with; parses = FALSE is a body that is not JSON
BodyTable ==
  << [parses |-> TRUE, data |-> JObj([data |-> JObj([posts |-> JArr(<<JNum(1)>>)])])],
     [parses |-> TRUE, data |-> JObj([errors |-> JArr(<<JObj([message |-> JStr(PQNF)])>>)])],
     [parses |-> TRUE,
      data |-> JObj([errors |-> JArr(<<JObj([extensions |-> JObj([code |-> JStr(PQNF_CODE)])])>>)])],
     [parses |-> TRUE, data |-> JObj([errors |-> JArr(<<JObj([message |-> JStr(MsgUnauthorized)])>>)])],
     [parses |-> TRUE,
      data |-> JObj([data |-> JNull,
                     errors |-> JArr(<<JObj([message |-> JStr(MsgUnauthorized)]),
                                       JObj([message |-> JStr(MsgWrapped)])>>)])],
     [parses |-> TRUE, data |-> JObj([errors |-> JArr(<<JObj([message |-> JNum(42)])>>)])],
     [parses |-> FALSE, data |-> Undefined] >>

Bodies == 1..Len(BodyTable)

Statuses == {200, 401, 500}

\* response.statusText as the server sends it with each status
StatusText(status) ==
  CASE status = 200 -> "OK"
    [] status = 401 -> "Unauthorized"
    [] status = 500 -> "Internal Server Error"
    [] OTHER -> ""

\* the ways a transport call can reject: a network failure, an abort of the in-flight call
FailureKinds == {"network", "abort"}

(***************************************************************************)
(* lib/request: payloads and requests of the strategies                    *)
(***************************************************************************)
\* Header names as the callers write them, and as a Headers object keeps them
LowerCase(name) ==
  CASE name = "Content-Type" -> "content-type"
    [] name = "Authorization" -> "authorization"
    [] name = "X-Api-Key" -> "x-api-key"
    [] OTHER -> name

NoHeaders == <<>>

\* new Headers(init): the entries of init under their lower-case names
NewHeaders(init) ==
  [ class |-> "Headers",
    entries |-> [n \in {LowerCase(k) : k \in DOMAIN init} |->
                   init[CHOOSE k \in DOMAIN init : LowerCase(k) = n]] ]

\* headers.set(name, value)
HeadersSet(headers, name, value) ==
  [headers EXCEPT !.entries = (LowerCase(name) :> value) @@ @]

\* { ...value }: the own enumerable properties of value; a Headers object has none
ObjectSpread(value) ==
  IF value.class = "Headers" THEN NoHeaders ELSE value.entries

\* the defaultFetchOptions.headers of the client, and what a call may pass as
\* fetchOptions.headers
DefaultHeaders == ("X-Api-Key" :> "k")

CallerHeaders == {NoHeaders, ("Authorization" :> "Bearer t")}

\* the headers of the merged fetch options of createServerClient.fetch
mergeHeaders(defaultHeaders, callerHeaders) ==
  LET headers == NewHeaders(defaultHeaders)
      merged == [headers EXCEPT !.entries = NewHeaders(callerHeaders).entries @@ @]
  IN HeadersSet(merged, "Content-Type", "application/json")

\* the onRequest hook of the client: it sets its Authorization header on the headers of
\* the options it is given and returns these options
HookToken == "Bearer h"

onRequest(fetchOptions) ==
  [fetchOptions EXCEPT !.headers = HeadersSet(@, "Authorization", HookToken)]

\* the header fields the transport puts on the wire for a request
WireHeaders(request) ==
  IF request.headers.class = "Headers"
    THEN request.headers.entries
    ELSE NewHeaders(request.headers.entries).entries

PostRequest(endpoint, payload, fetchOptions) ==
  [ method |-> "POST",
    url |-> [endpoint |-> endpoint, searchParams |-> <<>>],
    hasBody |-> TRUE,
    body |-> createRequestBody(payload),
    headers |-> [ class |-> "Object",
                  entries |-> ("Content-Type" :> "application/json")
                                @@ ObjectSpread(fetchOptions.headers) ] ]

GetRequest(url, fetchOptions) ==
  [ method |-> "GET", url |-> url, hasBody |-> FALSE, body |-> JsonStringify(Undefined),
    headers |-> fetchOptions.headers ]

\* a variant that also sends the document id
standardPostPayload_withDocumentId(operation) ==
  [ query |-> JStr(operation.document),
    variables |-> operation.variables,
    documentId |-> operation.documentId ]

standardPostPayload(operation) ==
  [query |-> JStr(operation.document), variables |-> operation.variables]

\* a variant that sends the query text with every mutation
mutationPostPayload_alwaysQuery(operation, alwaysIncludeQuery) ==
  IF Truthy(operation.documentId)
    THEN [ documentId |-> operation.documentId,
           variables |-> operation.variables,
           query |-> JStr(operation.document) ]
    ELSE [query |-> JStr(operation.document), variables |-> operation.variables]

\* a variant that never sends the query text next to a document id
mutationPostPayload_neverQueryWithId(operation, alwaysIncludeQuery) ==
  IF Truthy(operation.documentId)
    THEN [ documentId |-> operation.documentId,
           variables |-> operation.variables,
           query |-> Undefined ]
    ELSE [query |-> JStr(operation.document), variables |-> operation.variables]

mutationPostPayload(operation, alwaysIncludeQuery) ==
  IF Truthy(operation.documentId)
    THEN [ documentId |-> operation.documentId,
           variables |-> operation.variables,
           query |-> IF alwaysIncludeQuery THEN JStr(operation.document) ELSE Undefined ]
    ELSE [query |-> JStr(operation.document), variables |-> operation.variables]

\* a variant that always puts the hash on the GET URL
apqExtensions_always(operation, alwaysIncludeQuery) ==
  getPersistedQueryExtension(operation.document)

\* a variant that leaves the hash off the GET URL whenever a document id exists
apqExtensions_neverWithId(operation, alwaysIncludeQuery) ==
  IF Truthy(operation.documentId)
    THEN Undefined
    ELSE getPersistedQueryExtension(operation.document)

\* a variant that never puts the hash on the GET URL
apqExtensions_none(operation, alwaysIncludeQuery) == Undefined

\* the extensions variable of apqQuery: what the GET URL carries
apqExtensions(operation, alwaysIncludeQuery) ==
  IF Truthy(operation.documentId)
    THEN IF alwaysIncludeQuery THEN getPersistedQueryExtension(operation.document) ELSE Undefined
    ELSE getPersistedQueryExtension(operation.document)

\* a variant that hashes the document anew for the fallback, without its surrounding blanks
apqFallbackExtensions_rehashed(operation, alwaysIncludeQuery) ==
  IF alwaysIncludeQuery \/ ~Truthy(operation.documentId)
    THEN getPersistedQueryExtension(Trim(operation.document))
    ELSE Undefined

\* a variant that hands the hash to every fallback
apqFallbackExtensions_always(operation, alwaysIncludeQuery) ==
  getPersistedQueryExtension(operation.document)

apqFallbackExtensions(operation, alwaysIncludeQuery) ==
  IF alwaysIncludeQuery \/ ~Truthy(operation.documentId)
    THEN apqExtensions(operation, alwaysIncludeQuery)
    ELSE Undefined

\* a variant that leaves the document id out of the fallback body
apqPostFallbackPayload_withoutDocumentId(operation, extensions) ==
  [query |-> JStr(operation.document), variables |-> operation.variables]
  @@ (IF Truthy(extensions) THEN [extensions |-> extensions] ELSE <<>>)

apqPostFallbackPayload(operation, extensions) ==
  [query |-> JStr(operation.document), variables |-> operation.variables]
  @@ (IF Truthy(operation.documentId) THEN [documentId |-> operation.documentId] ELSE <<>>)
  @@ (IF Truthy(extensions) THEN [extensions |-> extensions] ELSE <<>>)

\* response.ok
ResponseOk(response) == response.status >= 200 /\ response.status <= 299

\* a variant that accepts every ok GET response without inspecting it
apqAcceptsGet_noDetection(response) == ResponseOk(response)

\* a variant that forgets the response.ok test
apqAcceptsGet_ignoresStatus(response) ==
  \/ ~BodyTable[response.body].parses
  \/ isPersistedQueryNotFoundError(BodyTable[response.body].data) # "true"

\* a variant whose catch covers the JSON parse only: a detector that throws ends in the
\* fallback
apqAcceptsGet_throwFallsBack(response) ==
  /\ ResponseOk(response)
  /\ \/ ~BodyTable[response.body].parses
     \/ isPersistedQueryNotFoundError(BodyTable[response.body].data) = "false"

\* a variant that treats an ok GET answer whose body is not JSON as a miss
apqAcceptsGet_nonJsonFallsBack(response) ==
  /\ ResponseOk(response)
  /\ BodyTable[response.body].parses
  /\ isPersistedQueryNotFoundError(BodyTable[response.body].data) # "true"

\* apqQuery returns the GET response: it is ok and either its body is not JSON, or the
\* detector does not report not-found, or the detector throws (caught by the same catch)
apqAcceptsGet(response) ==
  /\ ResponseOk(response)
  /\ \/ ~BodyTable[response.body].parses
     \/ isPersistedQueryNotFoundError(BodyTable[response.body].data) # "true"

\* a variant that sends mutations through the APQ strategy
SelectStrategy_mutationsViaApq(config, documentType) ==
  IF config.disablePersistedOperations THEN "standardPost" ELSE "apqQuery"

\* the strategy selection of createServerClient.fetch
SelectStrategy(config, documentType) ==
  IF config.disablePersistedOperations THEN "standardPost"
  ELSE IF documentType = "mutation" THEN "mutationPost"
  ELSE "apqQuery"

(***************************************************************************)
(* State                                                                   *)
(*   config  the client configuration fixed by createServerClient          *)
(*   call    per fetch call: its position (pc), its operation, the         *)
(*           requests it issued, the transport outcomes it received, the   *)
(*           response its strategy returned, what the onResponse hook was  *)
(*           given, how often its span was ended, and its result           *)
(*   probe   a parsed body handed to the not-found detector on its own,    *)
(*           and what the detector made of it                              *)
(***************************************************************************)
VARIABLES config, call, probe

vars == <<config, call, probe>>

CallIds == {1, 2}

NoOperation == createOperation(<<>>, Undefined, Undefined)

NoResponse == [req |-> 0, status |-> 0, statusText |-> "", body |-> 0]

NoMessage == [kind |-> "none", status |-> 0, statusText |-> ""]

NoResult ==
  [kind |-> "none", response |-> NoResponse, data |-> Undefined, error |-> "none", message |-> NoMessage]

NoFetchOptions == [headers |-> NewHeaders(NoHeaders)]

NewCall(pc) ==
  [ pc |-> pc,
    operation |-> NoOperation,
    documentType |-> "none",
    fetchOptions |-> NoFetchOptions,
    fallbackExtensions |-> Undefined,
    requests |-> <<>>,
    outcomes |-> <<>>,
    response |-> NoResponse,
    hookLog |-> <<>>,
    bodyUsed |-> FALSE,
    cloneReads |-> <<>>,
    spanEnds |-> 0,
    result |-> NoResult ]

Configs ==
  [ disablePersistedOperations : BOOLEAN,
    alwaysIncludeQuery : BOOLEAN,
    onRequest : BOOLEAN,
    onResponse : BOOLEAN ]

NoProbe == [stage |-> "off", body |-> Undefined, result |-> "none"]

\* a client with any configuration, on which one fetch call is about to be made
Init ==
  /\ config \in Configs
  /\ call = [c \in CallIds |-> IF c = 1 THEN NewCall("idle") ELSE NewCall("unused")]
  /\ probe = NoProbe

Set(c, rec) ==
  /\ call' = [call EXCEPT ![c] = rec]
  /\ UNCHANGED <<config, probe>>

LastOutcome(c) == call[c].outcomes[Len(call[c].outcomes)]

(***************************************************************************)
(* createServerClient.fetch, up to the strategy selection                  *)
(***************************************************************************)
\* a call whose options are drawn from the given sets
FetchOf(c, documents, documentIds, variableValues, callerHeaders) ==
  /\ call[c].pc = "idle"
  /\ \E document \in documents, documentId \in documentIds, variables \in variableValues,
        headers \in callerHeaders :
       Set(c, [call[c] EXCEPT
                 !.pc = "select",
                 !.fetchOptions =
                   LET fetchOptions == [headers |-> mergeHeaders(DefaultHeaders, headers)]
                   IN IF config.onRequest THEN onRequest(fetchOptions) ELSE fetchOptions,
                 !.operation = createOperation(document, variables, documentId),
                 !.documentType = getDocumentType(document)])

Fetch(c) == FetchOf(c, Documents, DocumentIds, VariableValues, CallerHeaders)

(***************************************************************************)
(* The three strategies, each up to its first transport call               *)
(***************************************************************************)
standardPost(c) ==
  /\ call[c].pc = "select"
  /\ SelectStrategy(config, call[c].documentType) = "standardPost"
  /\ Set(c, [call[c] EXCEPT
               !.pc = "awaitPost",
               !.requests = Append(@, PostRequest(Endpoint, standardPostPayload(call[c].operation),
                               call[c].fetchOptions))])

mutationPost(c) ==
  /\ call[c].pc = "select"
  /\ SelectStrategy(config, call[c].documentType) = "mutationPost"
  /\ Set(c, [call[c] EXCEPT
               !.pc = "awaitPost",
               !.requests = Append(@, PostRequest(Endpoint,
                               mutationPostPayload(call[c].operation, config.alwaysIncludeQuery),
                               call[c].fetchOptions))])

\* a variant that trims the document of the operation in place before building the URL
apqQuery_trimsDocument(c) ==
  /\ call[c].pc = "select"
  /\ SelectStrategy(config, call[c].documentType) = "apqQuery"
  /\ LET operation == [call[c].operation EXCEPT !.document = Trim(@)]
     IN Set(c, [call[c] EXCEPT
                  !.pc = "awaitGet",
                  !.operation = operation,
                  !.fallbackExtensions = apqFallbackExtensions(operation, config.alwaysIncludeQuery),
                  !.requests = Append(@, GetRequest(createUrl(Endpoint, operation,
                                  apqExtensions(operation, config.alwaysIncludeQuery)),
                                  call[c].fetchOptions))])

apqQuery(c) ==
  /\ call[c].pc = "select"
  /\ SelectStrategy(config, call[c].documentType) = "apqQuery"
  /\ Set(c, [call[c] EXCEPT
               !.pc = "awaitGet",
               !.fallbackExtensions = apqFallbackExtensions(call[c].operation, config.alwaysIncludeQuery),
               !.requests = Append(@, GetRequest(createUrl(Endpoint, call[c].operation,
                               apqExtensions(call[c].operation, config.alwaysIncludeQuery)),
                               call[c].fetchOptions))])

(***************************************************************************)
(* The transport: the in-flight request is answered, or the call rejects   *)
(***************************************************************************)
\* an answer whose status and body are drawn from the given sets
TransportRespondsWith(c, statuses, bodies) ==
  /\ call[c].pc \in {"awaitGet", "awaitPost"}
  /\ \E status \in statuses, body \in bodies :
       Set(c, [call[c] EXCEPT
                 !.pc = IF call[c].pc = "awaitGet" THEN "gotGet" ELSE "gotPost",
                 !.outcomes = Append(@, [kind |-> "response", error |-> "none",
                                          response |-> [req |-> Len(call[c].requests),
                                                        status |-> status,
                                                        statusText |-> StatusText(status),
                                                        body |-> body]])])

TransportResponds(c) == TransportRespondsWith(c, Statuses, Bodies)

\* a rejection drawn from the given set
TransportFailsWith(c, failureKinds) ==
  /\ call[c].pc \in {"awaitGet", "awaitPost"}
  /\ \E failure \in failureKinds :
       Set(c, [call[c] EXCEPT
                 !.pc = IF call[c].pc = "awaitGet" THEN "gotGet" ELSE "gotPost",
                 !.outcomes = Append(@, [kind |-> "failure", error |-> failure,
                                          response |-> NoResponse])])

TransportFails(c) == TransportFailsWith(c, FailureKinds)

(***************************************************************************)
(* apqQuery after the GET, and the POST strategies after their POST        *)
(***************************************************************************)
\* a variant that awaits the rejected transport call once more instead of throwing
StrategyThrows_retries(c) ==
  /\ call[c].pc \in {"gotGet", "gotPost"}
  /\ LastOutcome(c).kind = "failure"
  /\ Set(c, [call[c] EXCEPT
               !.pc = IF call[c].pc = "gotGet" THEN "awaitGet" ELSE "awaitPost",
               !.outcomes = SubSeq(@, 1, Len(@) - 1)])

\* a variant whose catch wraps the error into the client error
StrategyThrows_wrapped(c) ==
  /\ call[c].pc \in {"gotGet", "gotPost"}
  /\ LastOutcome(c).kind = "failure"
  /\ Set(c, [call[c] EXCEPT
               !.pc = "done",
               !.spanEnds = @ + 1,
               !.result = [kind |-> "GraphQLClientError", response |-> NoResponse,
                           data |-> Undefined, error |-> "none", message |-> NoMessage]])

\* the awaited fetch rejected: the strategy throws, the catch of createServerClient.fetch
\* ends the span and rethrows the original error
StrategyThrows(c) ==
  /\ call[c].pc \in {"gotGet", "gotPost"}
  /\ LastOutcome(c).kind = "failure"
  /\ Set(c, [call[c] EXCEPT
               !.pc = "done",
               !.spanEnds = @ + 1,
               !.result = [kind |-> "error", response |-> NoResponse, data |-> Undefined,
                           error |-> LastOutcome(c).error, message |-> NoMessage]])

\* the copies read so far, after apqQuery's inspection of an ok GET answer: it reads
\* response.clone(), never the answer itself
InspectionReads(c) ==
  IF ResponseOk(LastOutcome(c).response)
    THEN Append(call[c].cloneReads, "inspection")
    ELSE call[c].cloneReads

\* a variant whose inspection reads the GET answer itself instead of a copy
apqReturnsGet_readsOriginal(c) ==
  /\ call[c].pc = "gotGet"
  /\ LastOutcome(c).kind = "response"
  /\ apqAcceptsGet(LastOutcome(c).response)
  /\ Set(c, [call[c] EXCEPT !.pc = "process", !.response = LastOutcome(c).response,
                            !.bodyUsed = TRUE])

apqReturnsGet(c) ==
  /\ call[c].pc = "gotGet"
  /\ LastOutcome(c).kind = "response"
  /\ apqAcceptsGet(LastOutcome(c).response)
  /\ Set(c, [call[c] EXCEPT !.pc = "process", !.response = LastOutcome(c).response,
                            !.cloneReads = InspectionReads(c)])

\* a variant that retries the POST when the POST answer is rejected too
apqPostFallback_retry(c) ==
  /\ call[c].pc \in {"gotGet", "gotPost"}
  /\ LastOutcome(c).kind = "response"
  /\ ~apqAcceptsGet(LastOutcome(c).response)
  /\ Set(c, [call[c] EXCEPT
               !.pc = "awaitPost",
               !.cloneReads = InspectionReads(c),
               !.requests = Append(@, PostRequest(Endpoint,
                               apqPostFallbackPayload(call[c].operation, call[c].fallbackExtensions),
                               call[c].fetchOptions))])

\* a variant that also falls back when the GET was rejected
apqPostFallback_afterRejectedGet(c) ==
  /\ call[c].pc = "gotGet"
  /\ \/ LastOutcome(c).kind = "failure"
     \/ LastOutcome(c).kind = "response" /\ ~apqAcceptsGet(LastOutcome(c).response)
  /\ Set(c, [call[c] EXCEPT
               !.pc = "awaitPost",
               !.cloneReads = InspectionReads(c),
               !.requests = Append(@, PostRequest(Endpoint,
                               apqPostFallbackPayload(call[c].operation, call[c].fallbackExtensions),
                               call[c].fetchOptions))])

\* a variant that keeps the operation in one slot of the client, which holds the operation
\* of the started call with the highest number
apqPostFallback_sharedOperation(c) ==
  /\ call[c].pc = "gotGet"
  /\ LastOutcome(c).kind = "response"
  /\ ~apqAcceptsGet(LastOutcome(c).response)
  /\ LET started == {d \in CallIds : call[d].pc \notin {"unused", "idle"}}
         slot == CHOOSE d \in started : \A e \in started : e <= d
     IN Set(c, [call[c] EXCEPT
                  !.pc = "awaitPost",
                  !.cloneReads = InspectionReads(c),
                  !.requests = Append(@, PostRequest(Endpoint,
                                  apqPostFallbackPayload(call[slot].operation, call[c].fallbackExtensions),
                                  call[c].fetchOptions))])

apqPostFallback(c) ==
  /\ call[c].pc = "gotGet"
  /\ LastOutcome(c).kind = "response"
  /\ ~apqAcceptsGet(LastOutcome(c).response)
  /\ Set(c, [call[c] EXCEPT
               !.pc = "awaitPost",
               !.cloneReads = InspectionReads(c),
               !.requests = Append(@, PostRequest(Endpoint,
                               apqPostFallbackPayload(call[c].operation, call[c].fallbackExtensions),
                               call[c].fetchOptions))])

PostReturns(c) ==
  /\ call[c].pc = "gotPost"
  /\ LastOutcome(c).kind = "response"
  /\ Set(c, [call[c] EXCEPT !.pc = "process", !.response = LastOutcome(c).response])

(***************************************************************************)
(* createServerClient.fetch after the strategy returned a response         *)
(***************************************************************************)
\* a variant that calls the hook after the status check, for ok responses only
onResponseHook_afterStatusCheck(c) ==
  /\ call[c].pc = "process"
  /\ config.onResponse
  /\ \E reads \in BOOLEAN :
       Set(c, [call[c] EXCEPT
                 !.pc = "check",
                 !.hookLog = IF ResponseOk(call[c].response)
                               THEN Append(@, call[c].response) ELSE @,
                 !.cloneReads = IF reads /\ ResponseOk(call[c].response)
                                  THEN Append(@, "hook") ELSE @])

\* the hook is handed response.clone(); it may read that copy to the end or leave it
onResponseHook(c) ==
  /\ call[c].pc = "process"
  /\ config.onResponse
  /\ \E reads \in BOOLEAN :
       Set(c, [call[c] EXCEPT
                 !.pc = "check",
                 !.hookLog = Append(@, call[c].response),
                 !.cloneReads = IF reads THEN Append(@, "hook") ELSE @])

AtStatusCheck(c) ==
  \/ call[c].pc = "check"
  \/ call[c].pc = "process" /\ ~config.onResponse

\* new GraphQLClientError(message, response)
GraphQLClientError(message, response) ==
  [kind |-> "GraphQLClientError", response |-> response, data |-> Undefined, error |-> "none",
   message |-> message]

\* `HTTP Error: ${response.status} ${response.statusText}`
HttpErrorMessage(response) ==
  [kind |-> "HTTP Error", status |-> response.status, statusText |-> response.statusText]

\* the message of the error that response.json() rejected with
ParseErrorMessage == [kind |-> "parse", status |-> 0, statusText |-> ""]

\* the message of the TypeError of response.json() on a body that was read before
BodyUnusableMessage == [kind |-> "unusable", status |-> 0, statusText |-> ""]

\* response.json() of the answer itself rejects: the body was read before, or is not JSON
JsonRejects(c) == call[c].bodyUsed \/ ~BodyTable[call[c].response.body].parses

JsonRejectionMessage(c) == IF call[c].bodyUsed THEN BodyUnusableMessage ELSE ParseErrorMessage

\* a variant that raises the error without the response
ThrowHttpError_withoutResponse(c) ==
  /\ AtStatusCheck(c)
  /\ ~ResponseOk(call[c].response)
  /\ Set(c, [call[c] EXCEPT
               !.pc = "done",
               !.result = GraphQLClientError(HttpErrorMessage(call[c].response), NoResponse)])

ThrowHttpError(c) ==
  /\ AtStatusCheck(c)
  /\ ~ResponseOk(call[c].response)
  /\ Set(c, [call[c] EXCEPT
               !.pc = "done",
               !.result = GraphQLClientError(HttpErrorMessage(call[c].response), call[c].response)])

\* a variant that lets the error of response.json() escape as it is
ThrowParseError_unwrapped(c) ==
  /\ AtStatusCheck(c)
  /\ ResponseOk(call[c].response)
  /\ JsonRejects(c)
  /\ Set(c, [call[c] EXCEPT
               !.pc = "done",
               !.bodyUsed = TRUE,
               !.result = [kind |-> "error", response |-> NoResponse, data |-> Undefined,
                           error |-> "parse", message |-> JsonRejectionMessage(c)]])

ThrowParseError(c) ==
  /\ AtStatusCheck(c)
  /\ ResponseOk(call[c].response)
  /\ JsonRejects(c)
  /\ Set(c, [call[c] EXCEPT
               !.pc = "done",
               !.bodyUsed = TRUE,
               !.result = GraphQLClientError(JsonRejectionMessage(c), call[c].response)])

\* a variant that returns the parsed body of the first answer of the call
ReturnData_firstAnswer(c) ==
  /\ AtStatusCheck(c)
  /\ ResponseOk(call[c].response)
  /\ ~JsonRejects(c)
  /\ Set(c, [call[c] EXCEPT
               !.pc = "done",
               !.bodyUsed = TRUE,
               !.spanEnds = @ + 1,
               !.result = [kind |-> "data", response |-> call[c].response,
                           data |-> BodyTable[call[c].outcomes[1].response.body].data,
                           error |-> "none", message |-> NoMessage]])

ReturnData(c) ==
  /\ AtStatusCheck(c)
  /\ ResponseOk(call[c].response)
  /\ ~JsonRejects(c)
  /\ Set(c, [call[c] EXCEPT
               !.pc = "done",
               !.bodyUsed = TRUE,
               !.spanEnds = @ + 1,
               !.result = [kind |-> "data", response |-> call[c].response,
                           data |-> BodyTable[call[c].response.body].data, error |-> "none",
                           message |-> NoMessage]])

Next ==
  \E c \in CallIds :
    \/ Fetch(c)
    \/ standardPost(c)
    \/ mutationPost(c)
    \/ apqQuery(c)
    \/ TransportResponds(c)
    \/ TransportFails(c)
    \/ StrategyThrows(c)
    \/ apqReturnsGet(c)
    \/ apqPostFallback(c)
    \/ PostReturns(c)
    \/ onResponseHook(c)
    \/ ThrowHttpError(c)
    \/ ThrowParseError(c)
    \/ ReturnData(c)

Spec == Init /\ [][Next]_vars

\* what a call does by itself once the promise it awaits is settled
Continues(c) ==
  \/ standardPost(c)
  \/ mutationPost(c)
  \/ apqQuery(c)
  \/ StrategyThrows(c)
  \/ apqReturnsGet(c)
  \/ apqPostFallback(c)
  \/ PostReturns(c)
  \/ onResponseHook(c)
  \/ ThrowHttpError(c)
  \/ ThrowParseError(c)
  \/ ReturnData(c)

\* the event loop runs the continuation of every settled promise
SpecFair == Spec /\ \A c \in CallIds : WF_vars(Continues(c))

\* the transport settles the request in flight, with an answer or a rejection
Settles(c) == TransportResponds(c) \/ TransportFails(c)

\* every transport call and every hook completes, and the event loop runs what follows
SpecLive ==
  Spec /\ \A c \in CallIds : WF_vars(Continues(c)) /\ WF_vars(Settles(c))

(***************************************************************************)
(* Two calls on one client, interleaved at their suspension points         *)
(***************************************************************************)
ConcurrentDocuments == {DocQueryA, DocMutation}

ConcurrentDocumentIds == {Undefined, JStr(<<"i","d","1">>)}

ConcurrentVariables == {JObj([id |-> JStr(<<"7">>)])}

ConcurrentHeaders == {NoHeaders}

ConcurrentStatuses == {200, 500}

\* a body with data, a not-found body, a body that is not JSON
ConcurrentBodies == {1, 2, 7}

ConcurrentFailures == {"network"}

InitConcurrent ==
  /\ config \in {k \in Configs : ~k.onRequest}
  /\ call = [c \in CallIds |-> NewCall("idle")]
  /\ probe = NoProbe

NextConcurrent ==
  \E c \in CallIds :
    \/ FetchOf(c, ConcurrentDocuments, ConcurrentDocumentIds, ConcurrentVariables, ConcurrentHeaders)
    \/ standardPost(c)
    \/ mutationPost(c)
    \/ apqQuery(c)
    \/ TransportRespondsWith(c, ConcurrentStatuses, ConcurrentBodies)
    \/ TransportFailsWith(c, ConcurrentFailures)
    \/ StrategyThrows(c)
    \/ apqReturnsGet(c)
    \/ apqPostFallback(c)
    \/ PostReturns(c)
    \/ onResponseHook(c)
    \/ ThrowHttpError(c)
    \/ ThrowParseError(c)
    \/ ReturnData(c)

SpecConcurrent == InitConcurrent /\ [][NextConcurrent]_vars

(***************************************************************************)
(* The not-found detector on its own: any parsed body, one application     *)
(***************************************************************************)
\* the longest errors array handed to the detector
MaxErrors == 2

MsgOther == <<"O","T","H","E","R">>

\* what an element of an errors array may be
ErrorElements ==
  << JNull,
     JNum(7),
     JStr(PQNF),
     JArr(<<JStr(PQNF)>>),
     JObj(<<>>),
     JObj([message |-> JStr(PQNF)]),
     JObj([message |-> JStr(MsgWrapped)]),
     JObj([message |-> JStr(MsgUnauthorized)]),
     JObj([message |-> JNull]),
     JObj([message |-> JNum(42)]),
     JObj([message |-> JArr(<<JStr(PQNF)>>)]),
     JObj([extensions |-> JObj([code |-> JStr(PQNF_CODE)])]),
     JObj([extensions |-> JObj([code |-> JStr(MsgOther)])]),
     JObj([extensions |-> JStr(PQNF_CODE)]),
     JObj([extensions |-> JNull]),
     JObj([message |-> JStr(MsgUnauthorized), extensions |-> JObj([code |-> JStr(PQNF_CODE)])]),
     JObj([message |-> JNum(42), extensions |-> JObj([code |-> JStr(PQNF_CODE)])]) >>

\* the elements of an errors array, as positions in ErrorElements
ErrorPicks == UNION {[1..n -> 1..Len(ErrorElements)] : n \in 0..MaxErrors}

ErrorsShapes == {"null", "string", "object", "array"}

\* what the errors field of a body may be
ErrorsValue(shape, picks) ==
  CASE shape = "null" -> JNull
    [] shape = "string" -> JStr(PQNF)
    [] shape = "object" -> JObj([message |-> JStr(PQNF)])
    [] shape = "array" -> JArr([i \in 1..Len(picks) |-> ErrorElements[picks[i]]])

BodyShapes == {"null", "number", "string", "array", "empty", "data", "errors", "dataAndErrors"}

\* what response.json() may resolve to
ParsedBody(top, shape, picks) ==
  CASE top = "null" -> JNull
    [] top = "number" -> JNum(1)
    [] top = "string" -> JStr(PQNF)
    [] top = "array" -> JArr(<<JObj([message |-> JStr(PQNF)])>>)
    [] top = "empty" -> JObj(<<>>)
    [] top = "data" -> JObj([data |-> JObj([posts |-> JArr(<<JNum(1)>>)])])
    [] top = "errors" -> JObj([errors |-> ErrorsValue(shape, picks)])
    [] top = "dataAndErrors" -> JObj([data |-> JNull, errors |-> ErrorsValue(shape, picks)])

InitDetector ==
  /\ config = [disablePersistedOperations |-> FALSE, alwaysIncludeQuery |-> FALSE, onRequest |-> FALSE, onResponse |-> FALSE]
  /\ call = [c \in CallIds |-> NewCall("unused")]
  /\ \E top \in BodyShapes, shape \in ErrorsShapes, picks \in ErrorPicks :
       /\ top \notin {"errors", "dataAndErrors"} => shape = "null"
       /\ shape # "array" => picks = <<>>
       /\ probe = [stage |-> "input", body |-> ParsedBody(top, shape, picks), result |-> "none"]

\* one application of the detector to the body
Detect ==
  /\ probe.stage = "input"
  /\ probe' = [probe EXCEPT !.stage = "result", !.result = isPersistedQueryNotFoundError(probe.body)]
  /\ UNCHANGED <<config, call>>

NextDetector == Detect

SpecDetector == InitDetector /\ [][NextDetector]_vars

(***************************************************************************)
(* createRequestBody on its own: any payload, one application              *)
(***************************************************************************)
PayloadFields == {"query", "documentId", "variables", "extensions"}

\* what a field of a payload may hold
FieldValues ==
  << Undefined,
     JNull,
     JObj(<<>>),
     JArr(<<>>),
     JStr(<<>>),
     JStr(DocQueryA),
     JObj([id |-> JStr(<<"7">>)]),
     JArr(<<JNum(1)>>),
     JObj([id |-> Undefined]) >>

\* the payload whose field f holds FieldValues[picks[f]], and lacks f when picks[f] is 0
PayloadOf(picks) ==
  [f \in {g \in PayloadFields : picks[g] # 0} |-> FieldValues[picks[f]]]

InitBody ==
  /\ config = [disablePersistedOperations |-> FALSE, alwaysIncludeQuery |-> FALSE, onRequest |-> FALSE, onResponse |-> FALSE]
  /\ call = [c \in CallIds |-> NewCall("unused")]
  /\ \E picks \in [PayloadFields -> 0..Len(FieldValues)] :
       probe = [stage |-> "payload", picks |-> picks, payload |-> PayloadOf(picks),
                result |-> JsonStringify(Undefined)]

\* one application of createRequestBody to the payload
BuildBody ==
  /\ probe.stage = "payload"
  /\ probe' = [probe EXCEPT !.stage = "body", !.result = createRequestBody(probe.payload)]
  /\ UNCHANGED <<config, call>>

NextBody == BuildBody

SpecBody == InitBody /\ [][NextBody]_vars

(***************************************************************************)
(* createOperation and createUrl on their own: any document, document id,  *)
(* variables and extensions argument                                       *)
(***************************************************************************)
DocEmpty == <<>>
DocKeywordOnly == <<"q","u","e","r","y"," ">>
DocUnderscore == <<"q","u","e","r","y"," "," ","_","x","1","(",")","{","a","}">>

OperationDocuments == Documents \cup {DocEmpty, DocKeywordOnly, DocUnderscore}

\* what the variables of an operation may be
OperationVariables ==
  << Undefined, JNull, JObj(<<>>), JObj([id |-> JStr(<<"7">>)]), JArr(<<>>), JArr(<<JNum(1)>>) >>

\* what the extensions argument of createUrl may be: not supplied, an empty object, the hash
ExtensionArguments(document) ==
  << Undefined, JObj(<<>>), getPersistedQueryExtension(document) >>

NoUrl == [endpoint |-> "", searchParams |-> <<>>]

InitOperation ==
  /\ config = [disablePersistedOperations |-> FALSE, alwaysIncludeQuery |-> FALSE, onRequest |-> FALSE, onResponse |-> FALSE]
  /\ call = [c \in CallIds |-> NewCall("unused")]
  /\ \E document \in OperationDocuments, documentId \in DocumentIds,
        v \in 1..Len(OperationVariables) :
     \E e \in 1..Len(ExtensionArguments(document)) :
       probe = [ stage |-> "options",
                 document |-> document,
                 documentId |-> documentId,
                 variables |-> OperationVariables[v],
                 extensions |-> ExtensionArguments(document)[e],
                 operation |-> NoOperation,
                 url |-> NoUrl ]

\* createOperation on the options of the call
CreateOperation ==
  /\ probe.stage = "options"
  /\ probe' = [probe EXCEPT
                 !.stage = "operation",
                 !.operation = createOperation(probe.document, probe.variables, probe.documentId)]
  /\ UNCHANGED <<config, call>>

\* createUrl on the operation
CreateUrl ==
  /\ probe.stage = "operation"
  /\ probe' = [probe EXCEPT
                 !.stage = "url",
                 !.url = createUrl(Endpoint, probe.operation, probe.extensions)]
  /\ UNCHANGED <<config, call>>

NextOperation == CreateOperation \/ CreateUrl

SpecOperation == InitOperation /\ [][NextOperation]_vars

(***************************************************************************)
(* getPersistedQueryExtension on its own: two operations, each with its    *)
(* own document, document id and variables                                 *)
(***************************************************************************)
InitHash ==
  /\ config = [disablePersistedOperations |-> FALSE, alwaysIncludeQuery |-> FALSE, onRequest |-> FALSE, onResponse |-> FALSE]
  /\ call = [c \in CallIds |-> NewCall("unused")]
  /\ \E documentA \in OperationDocuments, documentB \in OperationDocuments,
        documentIdA \in DocumentIds, documentIdB \in DocumentIds,
        variablesA \in VariableValues, variablesB \in VariableValues :
       probe = [ stage |-> "operations",
                 a |-> createOperation(documentA, variablesA, documentIdA),
                 b |-> createOperation(documentB, variablesB, documentIdB),
                 extensionA |-> Undefined,
                 extensionB |-> Undefined ]

\* getPersistedQueryExtension(operation.document) for either operation
HashDocuments ==
  /\ probe.stage = "operations"
  /\ probe' = [probe EXCEPT
                 !.stage = "hashed",
                 !.extensionA = getPersistedQueryExtension(probe.a.document),
                 !.extensionB = getPersistedQueryExtension(probe.b.document)]
  /\ UNCHANGED <<config, call>>

NextHash == HashDocuments

SpecHash == InitHash /\ [][NextHash]_vars

(***************************************************************************)
(* Vocabulary of the properties                                            *)
(***************************************************************************)
PastSelect(c) == call[c].pc \notin {"unused", "idle", "select"}

\* the call is past what apqQuery does with the outcome of the GET
PastGet(c) == call[c].pc \in {"awaitPost", "gotPost", "process", "check", "done"}

IsQuery(c) == call[c].documentType = "query"

IsMutation(c) == call[c].documentType = "mutation"

OnApqPath(c) == PastSelect(c) /\ ~config.disablePersistedOperations /\ IsQuery(c)

HasDocumentId(c) ==
  call[c].operation.documentId.t = "string" /\ Len(call[c].operation.documentId.v) > 0

HasVariables(c) ==
  call[c].operation.variables.t = "object" /\ DOMAIN call[c].operation.variables.v # {}

BodyHas(r, key) == r.hasBody /\ key \in BodyKeys(r.body)

BodyField(r, key) == r.body.json.v[key]

\* the body carries the query text and the variables of the operation of call c
\* (the variables key is there exactly when the variables are a non-empty object)
CarriesQuery(r, c) == BodyHas(r, "query") /\ BodyField(r, "query") = JStr(call[c].operation.document)

CarriesVariables(r, c) ==
  /\ BodyHas(r, "variables") <=> HasVariables(c)
  /\ HasVariables(c) => BodyField(r, "variables") = call[c].operation.variables

CarriesDocumentId(r, c) ==
  BodyHas(r, "documentId") /\ BodyField(r, "documentId") = call[c].operation.documentId

UrlHas(r, key) == key \in DOMAIN r.url.searchParams

\* the transport answered request i of call c with a response
Answered(c, i) == Len(call[c].outcomes) >= i /\ call[c].outcomes[i].kind = "response"

Rejected(c, i) == Len(call[c].outcomes) >= i /\ call[c].outcomes[i].kind = "failure"

BodyIsNotFound(b) ==
  BodyTable[b].parses /\ isPersistedQueryNotFoundError(BodyTable[b].data) = "true"

IsSubscription(c) == StartsWith(Trim(call[c].operation.document), KwSubscription)

(***************************************************************************)
(* C1: with disablePersistedOperations the call issues exactly one         *)
(* request, a POST whose body holds only query and variables, whatever the *)
(* kind of the operation, its documentId and alwaysIncludeQuery.           *)
(***************************************************************************)
C1_StandardPostOnly ==
  \A c \in CallIds :
    config.disablePersistedOperations =>
      /\ Len(call[c].requests) <= 1
      /\ PastSelect(c) =>
           /\ Len(call[c].requests) = 1
           /\ call[c].requests[1].method = "POST"
           /\ BodyKeys(call[c].requests[1].body) \subseteq {"query", "variables"}
           /\ CarriesQuery(call[c].requests[1], c)
           /\ CarriesVariables(call[c].requests[1], c)

C1_Witness ==
  \E c \in CallIds :
    /\ call[c].pc = "done"
    /\ config.disablePersistedOperations /\ config.alwaysIncludeQuery
    /\ IsQuery(c) /\ HasDocumentId(c) /\ HasVariables(c)
    /\ Len(call[c].requests) = 1

(***************************************************************************)
(* C2: a mutation with persisted operations enabled issues exactly one     *)
(* request, a POST without extensions; never a GET, never a second         *)
(* request, whatever the server answers.                                   *)
(***************************************************************************)
C2_MutationSinglePost ==
  \A c \in CallIds :
    (IsMutation(c) /\ ~config.disablePersistedOperations) =>
      /\ Len(call[c].requests) <= 1
      /\ \A i \in 1..Len(call[c].requests) :
           /\ call[c].requests[i].method = "POST"
           /\ ~BodyHas(call[c].requests[i], "extensions")
           /\ ~UrlHas(call[c].requests[i], "extensions")
      /\ PastSelect(c) => Len(call[c].requests) = 1

\* a mutation whose POST was answered with a not-found error ended after one request
C2_Witness ==
  \E c \in CallIds :
    /\ call[c].pc = "done"
    /\ IsMutation(c) /\ ~config.disablePersistedOperations
    /\ Answered(c, 1) /\ BodyIsNotFound(call[c].outcomes[1].response.body)
    /\ Len(call[c].requests) = 1

(***************************************************************************)
(* C3: the body of the mutation POST: with a documentId it holds           *)
(* documentId and variables, and query exactly when alwaysIncludeQuery;    *)
(* without a documentId it holds query and variables and no documentId.    *)
(***************************************************************************)
C3_MutationBody ==
  \A c \in CallIds :
    (IsMutation(c) /\ ~config.disablePersistedOperations /\ PastSelect(c)) =>
      LET r == call[c].requests[1]
      IN /\ CarriesVariables(r, c)
         /\ HasDocumentId(c) =>
              /\ CarriesDocumentId(r, c)
              /\ BodyHas(r, "query") <=> config.alwaysIncludeQuery
              /\ config.alwaysIncludeQuery => CarriesQuery(r, c)
         /\ ~HasDocumentId(c) =>
              /\ CarriesQuery(r, c)
              /\ ~BodyHas(r, "documentId")

C3_Witness ==
  \E c \in CallIds :
    /\ call[c].pc = "done"
    /\ IsMutation(c) /\ ~config.disablePersistedOperations /\ ~config.alwaysIncludeQuery
    /\ HasDocumentId(c) /\ HasVariables(c)
    /\ BodyKeys(call[c].requests[1].body) = {"documentId", "variables"}

C5_DocumentIdGetOnly ==
  \A c \in CallIds :
    ( /\ OnApqPath(c) /\ HasDocumentId(c) /\ ~config.alwaysIncludeQuery
      /\ Answered(c, 1)
      /\ call[c].outcomes[1].response.status = 200
      /\ ~BodyIsNotFound(call[c].outcomes[1].response.body) ) =>
        /\ Len(call[c].requests) = 1
        /\ call[c].requests[1].method = "GET"
        /\ ~call[c].requests[1].hasBody
        /\ ~UrlHas(call[c].requests[1], "extensions")
        /\ UrlHas(call[c].requests[1], "documentId")

C5_Witness ==
  \E c \in CallIds :
    /\ call[c].pc = "done"
    /\ OnApqPath(c) /\ HasDocumentId(c) /\ ~config.alwaysIncludeQuery
    /\ Answered(c, 1)
    /\ call[c].outcomes[1].response.status = 200
    /\ ~BodyIsNotFound(call[c].outcomes[1].response.body)
    /\ call[c].result.kind = "data"
    /\ Len(call[c].requests) = 1

(***************************************************************************)
(* C6: a query without documentId, persisted operations enabled, whose GET *)
(* is answered with a PersistedQueryNotFound error, issues exactly two     *)
(* requests, the GET and then a POST whose body holds query, variables and *)
(* extensions.                                                             *)
(***************************************************************************)
C6_NotFoundFallsBackToPost ==
  \A c \in CallIds :
    ( /\ OnApqPath(c) /\ ~HasDocumentId(c)
      /\ Answered(c, 1)
      /\ BodyIsNotFound(call[c].outcomes[1].response.body) ) =>
        /\ Len(call[c].requests) <= 2
        /\ call[c].requests[1].method = "GET"
        /\ PastGet(c) =>
             /\ Len(call[c].requests) = 2
             /\ call[c].requests[2].method = "POST"
             /\ CarriesQuery(call[c].requests[2], c)
             /\ CarriesVariables(call[c].requests[2], c)
             /\ BodyHas(call[c].requests[2], "extensions")
             /\ BodyField(call[c].requests[2], "extensions")
                  = getPersistedQueryExtension(call[c].operation.document)

C6_Witness ==
  \E c \in CallIds :
    /\ call[c].pc = "done"
    /\ OnApqPath(c) /\ ~HasDocumentId(c) /\ HasVariables(c)
    /\ Answered(c, 1)
    /\ call[c].outcomes[1].response.status = 200
    /\ BodyIsNotFound(call[c].outcomes[1].response.body)
    /\ Len(call[c].requests) = 2
    /\ call[c].result.kind = "data"
    /\ call[c].result.response.req = 2

(***************************************************************************)
(* C7 as stated: a call whose document is a subscription fails at once     *)
(* with a dedicated unsupported-operation error; it issues no network      *)
(* request and is never routed to the mutation or the query strategy.      *)
(***************************************************************************)
C7_SubscriptionRejected ==
  \A c \in CallIds :
    (IsSubscription(c) /\ call[c].pc # "idle" /\ call[c].pc # "unused") =>
      /\ Len(call[c].requests) = 0
      /\ call[c].pc \in {"select", "done"}
      /\ call[c].pc = "done" => call[c].result.kind = "unsupported operation"

(***************************************************************************)
(* C8: a call issues at most two requests on the APQ query path and        *)
(* exactly one on every other path; two requests are the GET followed by   *)
(* the POST fallback, the POST is issued only once the outcome of the GET  *)
(* is known, and nothing follows the POST whatever its answer.             *)
(***************************************************************************)
C8_AtMostTwoSequentialRequests ==
  \A c \in CallIds :
    /\ Len(call[c].requests) <= 2
    /\ Len(call[c].outcomes) <= Len(call[c].requests)
    /\ Len(call[c].requests) <= Len(call[c].outcomes) + 1
    /\ Len(call[c].requests) = 2 =>
         /\ OnApqPath(c)
         /\ call[c].requests[1].method = "GET"
         /\ call[c].requests[2].method = "POST"
         /\ Len(call[c].outcomes) >= 1
    /\ (PastSelect(c) /\ ~OnApqPath(c)) => Len(call[c].requests) = 1
    /\ OnApqPath(c) => Len(call[c].requests) >= 1
    /\ call[c].pc = "done" => Len(call[c].outcomes) = Len(call[c].requests)

\* the POST fallback was itself answered with a not-found error, or with a non-2xx
\* status, and the call ended after these two requests
C8_Witness ==
  \E c \in CallIds :
    /\ call[c].pc = "done"
    /\ Len(call[c].requests) = 2
    /\ Answered(c, 2)
    /\ BodyIsNotFound(call[c].outcomes[2].response.body)
    /\ call[c].outcomes[2].response.status = 500

(***************************************************************************)
(* C9 as stated: on the APQ query path a transport failure of the GET is   *)
(* absorbed: the POST fallback is issued, and the caller sees an error     *)
(* only if the POST fails, and then the error of the POST.                 *)
(***************************************************************************)
C9_GetFailureAbsorbed ==
  \A c \in CallIds :
    (OnApqPath(c) /\ Rejected(c, 1) /\ PastGet(c)) =>
      /\ Len(call[c].requests) = 2
      /\ call[c].requests[2].method = "POST"
      /\ (call[c].pc = "done" /\ call[c].result.kind = "error") =>
           /\ Rejected(c, 2)
           /\ call[c].result.error = call[c].outcomes[2].error

(***************************************************************************)
(* C10: on the APQ query path a non-2xx status of the GET never raises the *)
(* client error: it triggers the POST fallback, and an HTTP error is       *)
(* raised only when the POST response is not OK, with the POST's status.   *)
(***************************************************************************)
C10_GetStatusTriggersFallback ==
  \A c \in CallIds :
    ( /\ OnApqPath(c)
      /\ Answered(c, 1)
      /\ ~ResponseOk(call[c].outcomes[1].response) ) =>
        /\ PastGet(c) =>
             /\ Len(call[c].requests) = 2
             /\ call[c].requests[2].method = "POST"
        /\ call[c].response.req # 1
        /\ call[c].result.response.req # 1
        /\ (call[c].result.kind = "GraphQLClientError" /\ call[c].result.message.kind = "HTTP Error") =>
             /\ Answered(c, 2)
             /\ call[c].result.response = call[c].outcomes[2].response
             /\ ~ResponseOk(call[c].outcomes[2].response)
             /\ call[c].result.message.status = call[c].outcomes[2].response.status
        /\ (call[c].pc = "done" /\ Answered(c, 2) /\ ResponseOk(call[c].outcomes[2].response)) =>
             ~(call[c].result.kind = "GraphQLClientError" /\ call[c].result.message.kind = "HTTP Error")

\* the GET was answered 500, the POST 401, and the call failed reporting 401
C10_Witness ==
  \E c \in CallIds :
    /\ call[c].pc = "done"
    /\ OnApqPath(c)
    /\ Answered(c, 1) /\ call[c].outcomes[1].response.status = 500
    /\ Answered(c, 2) /\ call[c].outcomes[2].response.status = 401
    /\ call[c].result.kind = "GraphQLClientError"
    /\ call[c].result.message.kind = "HTTP Error"
    /\ call[c].result.message.status = 401

(***************************************************************************)
(* C11: on the APQ query path a GET answered with a 2xx status and a body  *)
(* that is not JSON is taken as the final response: no POST fallback is    *)
(* issued, and the rest of the call works on the GET response.             *)
(***************************************************************************)
C11_NonJsonGetIsFinal ==
  \A c \in CallIds :
    ( /\ OnApqPath(c)
      /\ Answered(c, 1)
      /\ ResponseOk(call[c].outcomes[1].response)
      /\ ~BodyTable[call[c].outcomes[1].response.body].parses ) =>
        /\ Len(call[c].requests) = 1
        /\ call[c].pc \in {"gotGet", "process", "check", "done"}
        /\ call[c].pc # "gotGet" => call[c].response = call[c].outcomes[1].response
        /\ \A i \in 1..Len(call[c].hookLog) : call[c].hookLog[i] = call[c].outcomes[1].response
        /\ call[c].pc = "done" => call[c].result.response = call[c].outcomes[1].response

\* the GET was answered 200 with a body that is not JSON, and the call ended on it
C11_Witness ==
  \E c \in CallIds :
    /\ call[c].pc = "done"
    /\ OnApqPath(c)
    /\ Answered(c, 1)
    /\ call[c].outcomes[1].response.status = 200
    /\ ~BodyTable[call[c].outcomes[1].response.body].parses
    /\ Len(call[c].requests) = 1
    /\ call[c].result.response.req = 1

(***************************************************************************)
(* C12 as stated: every GET of the APQ query path carries the headers of   *)
(* the call's fetch options without any Content-Type header, and has no    *)
(* request body, although createServerClient.fetch always sets             *)
(* Content-Type: application/json on the fetch options.                    *)
(***************************************************************************)
C12_GetWithoutContentType ==
  \A c \in CallIds :
    \A i \in 1..Len(call[c].requests) :
      call[c].requests[i].method = "GET" =>
        /\ ~call[c].requests[i].hasBody
        /\ call[c].fetchOptions.headers.entries["content-type"] = "application/json"
        /\ "content-type" \notin DOMAIN WireHeaders(call[c].requests[i])
        /\ \A n \in DOMAIN call[c].fetchOptions.headers.entries \ {"content-type"} :
             /\ n \in DOMAIN WireHeaders(call[c].requests[i])
             /\ WireHeaders(call[c].requests[i])[n] = call[c].fetchOptions.headers.entries[n]

(***************************************************************************)
(* C13: on the APQ query path the GET URL has the extensions parameter,    *)
(* holding the persisted-query hash of the document, exactly when the      *)
(* operation has no documentId or alwaysIncludeQuery is true.              *)
(***************************************************************************)
C13_GetExtensionsIffNoIdOrAlways ==
  \A c \in CallIds :
    OnApqPath(c) =>
      /\ call[c].requests[1].method = "GET"
      /\ UrlHas(call[c].requests[1], "extensions")
           <=> (~HasDocumentId(c) \/ config.alwaysIncludeQuery)
      /\ UrlHas(call[c].requests[1], "extensions") =>
           call[c].requests[1].url.searchParams["extensions"]
             = JsonStringify(getPersistedQueryExtension(call[c].operation.document))

\* a GET with a documentId and the hash (alwaysIncludeQuery) was sent
C13_Witness ==
  \E c \in CallIds :
    /\ OnApqPath(c) /\ HasDocumentId(c) /\ config.alwaysIncludeQuery
    /\ call[c].requests[1].method = "GET"
    /\ UrlHas(call[c].requests[1], "extensions")
    /\ UrlHas(call[c].requests[1], "documentId")

(***************************************************************************)
(* C14: every fallback POST of the APQ query path has a body that holds    *)
(* the full document text as query and the variables of the operation,     *)
(* and holds the documentId exactly when the operation has one, whatever   *)
(* alwaysIncludeQuery is.                                                  *)
(***************************************************************************)
C14_FallbackBody ==
  \A c \in CallIds :
    (OnApqPath(c) /\ Len(call[c].requests) = 2) =>
      /\ call[c].requests[2].method = "POST"
      /\ CarriesQuery(call[c].requests[2], c)
      /\ CarriesVariables(call[c].requests[2], c)
      /\ BodyHas(call[c].requests[2], "documentId") <=> HasDocumentId(c)
      /\ HasDocumentId(c) => CarriesDocumentId(call[c].requests[2], c)
      /\ BodyKeys(call[c].requests[2].body) \subseteq {"query", "variables", "documentId", "extensions"}

\* a fallback POST for an operation with a documentId and variables, alwaysIncludeQuery off
C14_Witness ==
  \E c \in CallIds :
    /\ OnApqPath(c) /\ HasDocumentId(c) /\ HasVariables(c) /\ ~config.alwaysIncludeQuery
    /\ Len(call[c].requests) = 2
    /\ CarriesQuery(call[c].requests[2], c)
    /\ CarriesDocumentId(call[c].requests[2], c)

(***************************************************************************)
(* C15: the fallback POST body holds extensions (the persisted-query hash) *)
(* exactly when the GET of the same call had the extensions parameter,     *)
(* that is exactly when the documentId is absent or alwaysIncludeQuery is  *)
(* true; after a GET that relied on the documentId alone it has none.      *)
(***************************************************************************)
C15_FallbackExtensionsFollowGet ==
  \A c \in CallIds :
    (OnApqPath(c) /\ Len(call[c].requests) = 2) =>
      /\ BodyHas(call[c].requests[2], "extensions") <=> UrlHas(call[c].requests[1], "extensions")
      /\ BodyHas(call[c].requests[2], "extensions")
           <=> (~HasDocumentId(c) \/ config.alwaysIncludeQuery)
      /\ BodyHas(call[c].requests[2], "extensions") =>
           BodyField(call[c].requests[2], "extensions")
             = getPersistedQueryExtension(call[c].operation.document)

\* a fallback POST without extensions, after a GET that relied on the documentId alone
C15_Witness ==
  \E c \in CallIds :
    /\ OnApqPath(c) /\ HasDocumentId(c) /\ ~config.alwaysIncludeQuery
    /\ Len(call[c].requests) = 2
    /\ ~UrlHas(call[c].requests[1], "extensions")
    /\ ~BodyHas(call[c].requests[2], "extensions")
    /\ call[c].pc = "done"

(***************************************************************************)
(* C16: when the response the strategy ended on has a non-OK status the    *)
(* call fails with a GraphQLClientError that carries this response and     *)
(* reports its status and status text, and the call never returns data;    *)
(* a 401 answer to the single POST raises an error reporting 401.          *)
(***************************************************************************)
C16_NonOkRaisesClientError ==
  \A c \in CallIds :
    ( /\ call[c].pc = "done"
      /\ Len(call[c].requests) >= 1
      /\ Answered(c, Len(call[c].requests))
      /\ ~ResponseOk(call[c].outcomes[Len(call[c].requests)].response) ) =>
        LET final == call[c].outcomes[Len(call[c].requests)].response
        IN /\ call[c].result.kind = "GraphQLClientError"
           /\ call[c].result.response = final
           /\ call[c].result.message.kind = "HTTP Error"
           /\ call[c].result.message.status = final.status
           /\ call[c].result.message.statusText = final.statusText
           /\ call[c].result.data = Undefined

\* the single POST of a client with persisted operations disabled was answered 401
C16_Witness ==
  \E c \in CallIds :
    /\ call[c].pc = "done"
    /\ config.disablePersistedOperations
    /\ Len(call[c].requests) = 1
    /\ Answered(c, 1)
    /\ call[c].outcomes[1].response.status = 401
    /\ call[c].result.kind = "GraphQLClientError"
    /\ call[c].result.response.status = 401
    /\ call[c].result.message.statusText = "Unauthorized"

(***************************************************************************)
(* C17: when the response the strategy ended on has an OK status and a     *)
(* body that is not JSON, the call fails with a GraphQLClientError, the    *)
(* error type of an HTTP error, that carries this response; so it is for   *)
(* a GET of the APQ query path accepted as final with such a body.         *)
(***************************************************************************)
C17_UnparsableBodyRaisesClientError ==
  \A c \in CallIds :
    ( /\ call[c].pc = "done"
      /\ Len(call[c].requests) >= 1
      /\ Answered(c, Len(call[c].requests))
      /\ ResponseOk(call[c].outcomes[Len(call[c].requests)].response)
      /\ ~BodyTable[call[c].outcomes[Len(call[c].requests)].response.body].parses ) =>
        /\ call[c].result.kind = "GraphQLClientError"
        /\ call[c].result.response = call[c].outcomes[Len(call[c].requests)].response
        /\ call[c].result.message.kind = "parse"
        /\ call[c].result.data = Undefined

\* the GET of the APQ query path was answered 200 with a body that is not JSON, the
\* onResponse hook saw it, and the call failed with the client error carrying the GET response
C17_Witness ==
  \E c \in CallIds :
    /\ call[c].pc = "done"
    /\ OnApqPath(c)
    /\ config.onResponse
    /\ Len(call[c].requests) = 1
    /\ Answered(c, 1)
    /\ ResponseOk(call[c].outcomes[1].response)
    /\ ~BodyTable[call[c].outcomes[1].response.body].parses
    /\ call[c].result.kind = "GraphQLClientError"
    /\ call[c].result.response = call[c].outcomes[1].response

(***************************************************************************)
(* C18: a transport error on a POST, which is the only request of the      *)
(* standard and the mutation strategy and the last request of the APQ      *)
(* query strategy, reaches the caller as the original error: it is not     *)
(* wrapped in GraphQLClientError and no request follows it.                *)
(***************************************************************************)
C18_PostFailurePropagated ==
  \A c \in CallIds :
    \A i \in 1..Len(call[c].requests) :
      (call[c].requests[i].method = "POST" /\ Rejected(c, i)) =>
        /\ Len(call[c].requests) = i
        /\ call[c].pc \in {"gotPost", "done"}
        /\ call[c].response = NoResponse
        /\ call[c].pc = "done" =>
             /\ call[c].result.kind = "error"
             /\ call[c].result.error = call[c].outcomes[i].error
             /\ call[c].result.response = NoResponse

\* the fallback POST of the APQ query path failed in the network after a GET answered
\* not-found, and the call ended with the network error
C18_Witness ==
  \E c \in CallIds :
    /\ call[c].pc = "done"
    /\ OnApqPath(c)
    /\ Len(call[c].requests) = 2
    /\ Answered(c, 1)
    /\ Rejected(c, 2)
    /\ call[c].outcomes[2].error = "network"
    /\ call[c].result.kind = "error"
    /\ call[c].result.error = "network"

\* the detector has been applied to the probed body
Detected == probe.stage = "result"

\* the element is an object whose message is a text containing "PersistedQueryNotFound"
\* or whose extensions.code equals "PERSISTED_QUERY_NOT_FOUND"
ElementIsNotFound(element) ==
  /\ element.t = "object"
  /\ \/ /\ "message" \in DOMAIN element.v
        /\ element.v.message.t = "string"
        /\ Includes(element.v.message.v, PQNF)
     \/ /\ "extensions" \in DOMAIN element.v
        /\ element.v.extensions.t = "object"
        /\ "code" \in DOMAIN element.v.extensions.v
        /\ element.v.extensions.v.code.t = "string"
        /\ element.v.extensions.v.code.v = PQNF_CODE

\* the body is an object whose errors field is an array
HasErrorsArray(body) ==
  body.t = "object" /\ "errors" \in DOMAIN body.v /\ body.v.errors.t = "array"

HasNotFoundElement(body) ==
  /\ HasErrorsArray(body)
  /\ \E i \in 1..Len(body.v.errors.v) : ElementIsNotFound(body.v.errors.v[i])

(***************************************************************************)
(* C19 as stated: isPersistedQueryNotFoundError returns true exactly when  *)
(* the parsed body is an object whose errors field is an array with an     *)
(* element that is an object whose message contains                        *)
(* "PersistedQueryNotFound" or whose extensions.code equals                *)
(* "PERSISTED_QUERY_NOT_FOUND"; for every other body it returns false.     *)
(***************************************************************************)
C19_TrueExactlyOnNotFoundElement ==
  Detected =>
    /\ probe.result = "true" <=> HasNotFoundElement(probe.body)
    /\ ~HasNotFoundElement(probe.body) => probe.result = "false"

(***************************************************************************)
(* C20 as stated: the detector never raises an error: for every parsed     *)
(* body it returns a boolean, and it returns false when the body is not    *)
(* an object, has no errors array, or has only elements that are not       *)
(* objects or whose message and extensions are of an unexpected type.      *)
(***************************************************************************)
C20_DetectorNeverRaises ==
  Detected =>
    /\ probe.result \in {"true", "false"}
    /\ ( \/ ~HasErrorsArray(probe.body)
         \/ \A i \in 1..Len(probe.body.v.errors.v) : probe.body.v.errors.v[i].t # "object" ) =>
           probe.result = "false"

\* createRequestBody has been applied to the probed payload
BodyBuilt == probe.stage = "body"

\* the value is null, an empty object, an empty array or an empty string
IsEmptyValue(x) ==
  \/ x.t \in {"undefined", "null"}
  \/ x.t = "object" /\ DOMAIN x.v = {}
  \/ x.t \in {"array", "string"} /\ Len(x.v) = 0

(***************************************************************************)
(* C21: pruning law. For every payload given to createRequestBody, a field *)
(* that is absent or whose value is null, an empty object, an empty array  *)
(* or an empty string is not a key of the serialized body, and every field *)
(* with a non-empty value is a key of it.                                  *)
(***************************************************************************)
C21_PruningLaw ==
  BodyBuilt =>
    /\ BodyKeys(probe.result) \subseteq PayloadFields
    /\ \A f \in PayloadFields :
         IF f \notin DOMAIN probe.payload
           THEN f \notin BodyKeys(probe.result)
           ELSE f \in BodyKeys(probe.result) <=> ~IsEmptyValue(probe.payload[f])

\* a body was built from a payload with a query text, an empty-string documentId, empty
\* variables and no extensions
C21_Witness ==
  /\ BodyBuilt
  /\ probe.picks["query"] = 6
  /\ probe.picks["documentId"] = 5
  /\ probe.picks["variables"] = 3
  /\ probe.picks["extensions"] = 0
  /\ BodyKeys(probe.result) = {"query"}

\* createUrl has been applied to the probed operation
UrlBuilt == probe.stage = "url"

\* the value is an object or an array with at least one member
IsNonEmptyStructure(x) ==
  \/ x.t = "object" /\ DOMAIN x.v # {}
  \/ x.t = "array" /\ Len(x.v) > 0

(***************************************************************************)
(* C22: the URL built by createUrl has the parameter op, holding the       *)
(* operation name, always; documentId exactly when the operation has a     *)
(* documentId; variables exactly when the variables are a non-empty        *)
(* structure; extensions exactly when an extensions argument was given;    *)
(* and no other parameter, so none carrying the query text.                *)
(***************************************************************************)
C22_UrlParameters ==
  UrlBuilt =>
    LET params == probe.url.searchParams
        hasId == probe.documentId.t = "string" /\ Len(probe.documentId.v) > 0
    IN /\ DOMAIN params \subseteq {"op", "documentId", "variables", "extensions"}
       /\ "op" \in DOMAIN params
       /\ params["op"].t = "string"
       /\ params["op"].v = extractOperationName(probe.document)
       /\ "documentId" \in DOMAIN params <=> hasId
       /\ hasId => params["documentId"].v = probe.documentId.v
       /\ "variables" \in DOMAIN params <=> IsNonEmptyStructure(probe.variables)
       /\ "extensions" \in DOMAIN params <=> probe.extensions.t # "undefined"
       /\ "query" \notin DOMAIN params
       /\ Len(probe.document) > 0 => params["op"].v # probe.document

\* a URL with documentId and variables and without extensions was built
C22_Witness ==
  /\ UrlBuilt
  /\ DOMAIN probe.url.searchParams = {"op", "documentId", "variables"}
  /\ probe.extensions.t = "undefined"

(***************************************************************************)
(* C23 as stated: with alwaysIncludeQuery every request of a call carries  *)
(* the document text: the body of a POST holds it as query, and the URL of *)
(* the GET of the APQ query path holds it as a parameter.                  *)
(***************************************************************************)
C23_EveryRequestCarriesText ==
  \A c \in CallIds :
    config.alwaysIncludeQuery =>
      \A i \in 1..Len(call[c].requests) :
        IF call[c].requests[i].method = "POST"
          THEN CarriesQuery(call[c].requests[i], c)
          ELSE UrlHas(call[c].requests[i], "query")

(***************************************************************************)
(* C23 amended: with alwaysIncludeQuery every POST of a call carries the   *)
(* document text as query, also next to a documentId; the GET of the APQ   *)
(* query path carries the persisted-query hash of the text as extensions,  *)
(* also next to a documentId, and never the text itself.                   *)
(***************************************************************************)
C23_PostCarriesTextGetCarriesHash ==
  \A c \in CallIds :
    config.alwaysIncludeQuery =>
      \A i \in 1..Len(call[c].requests) :
        IF call[c].requests[i].method = "POST"
          THEN CarriesQuery(call[c].requests[i], c)
          ELSE /\ ~UrlHas(call[c].requests[i], "query")
               /\ ~call[c].requests[i].hasBody
               /\ UrlHas(call[c].requests[i], "extensions")
               /\ call[c].requests[i].url.searchParams["extensions"]
                    = JsonStringify(getPersistedQueryExtension(call[c].operation.document))

\* with alwaysIncludeQuery a query with a documentId went through the GET and the POST
C23_Witness ==
  \E c \in CallIds :
    /\ config.alwaysIncludeQuery
    /\ call[c].pc = "done"
    /\ OnApqPath(c) /\ HasDocumentId(c)
    /\ Len(call[c].requests) = 2
    /\ UrlHas(call[c].requests[1], "documentId")
    /\ UrlHas(call[c].requests[1], "extensions")
    /\ CarriesQuery(call[c].requests[2], c)

\* getPersistedQueryExtension has been applied to both probed operations
Hashed == probe.stage = "hashed"

Sha256HashOf(extension) == extension.v.persistedQuery.v.sha256Hash

VersionOf(extension) == extension.v.persistedQuery.v.version

RECURSIVE JsonEqual(_, _)
JsonEqual(x, y) ==
  /\ x.t = y.t
  /\ CASE x.t \in {"string", "number"} -> x.v = y.v
        [] x.t = "object" ->
             /\ DOMAIN x.v = DOMAIN y.v
             /\ \A k \in DOMAIN x.v : JsonEqual(x.v[k], y.v[k])
        [] x.t = "array" ->
             /\ Len(x.v) = Len(y.v)
             /\ \A i \in 1..Len(x.v) : JsonEqual(x.v[i], y.v[i])
        [] OTHER -> TRUE

(***************************************************************************)
(* C25: the value a successful call returns is the parsed JSON body of the *)
(* answer to its last request: of the GET when the GET was accepted, of    *)
(* the POST when the fallback ran, and then never the body of the GET.     *)
(***************************************************************************)
C25_ReturnsFinalBody ==
  \A c \in CallIds :
    call[c].result.kind = "data" =>
      LET n == Len(call[c].requests)
      IN /\ call[c].pc = "done"
         /\ Answered(c, n)
         /\ ResponseOk(call[c].outcomes[n].response)
         /\ BodyTable[call[c].outcomes[n].response.body].parses
         /\ call[c].result.response = call[c].outcomes[n].response
         /\ JsonEqual(call[c].result.data, BodyTable[call[c].outcomes[n].response.body].data)

\* the GET was answered 200 with a not-found body, the POST 200 with data, and the call
\* returned the body of the POST
C25_Witness ==
  \E c \in CallIds :
    /\ call[c].result.kind = "data"
    /\ OnApqPath(c)
    /\ Len(call[c].requests) = 2
    /\ call[c].outcomes[1].response.status = 200
    /\ call[c].outcomes[1].response.body = 2
    /\ call[c].outcomes[2].response.body = 1
    /\ JsonEqual(call[c].result.data, BodyTable[1].data)

\* the first request of call c, from the configuration and the call's own operation
OwnFirstRequest(c) ==
  CASE SelectStrategy(config, call[c].documentType) = "standardPost" ->
         PostRequest(Endpoint, standardPostPayload(call[c].operation), call[c].fetchOptions)
    [] SelectStrategy(config, call[c].documentType) = "mutationPost" ->
         PostRequest(Endpoint, mutationPostPayload(call[c].operation, config.alwaysIncludeQuery),
                     call[c].fetchOptions)
    [] OTHER ->
         GetRequest(createUrl(Endpoint, call[c].operation,
                              apqExtensions(call[c].operation, config.alwaysIncludeQuery)),
                    call[c].fetchOptions)

\* the fallback POST of call c, from the configuration and the call's own operation
OwnFallbackRequest(c) ==
  PostRequest(Endpoint,
              apqPostFallbackPayload(call[c].operation,
                                     apqFallbackExtensions(call[c].operation, config.alwaysIncludeQuery)),
              call[c].fetchOptions)

\* the requests of call c, from the configuration, its own operation and the answer to its GET
OwnRequests(c) ==
  IF ~PastSelect(c) THEN <<>>
  ELSE IF /\ SelectStrategy(config, call[c].documentType) = "apqQuery"
          /\ PastGet(c)
          /\ Answered(c, 1)
          /\ ~apqAcceptsGet(call[c].outcomes[1].response)
         THEN <<OwnFirstRequest(c), OwnFallbackRequest(c)>>
         ELSE <<OwnFirstRequest(c)>>

\* the result of call c, from the outcome of its own last request
OwnResult(c) ==
  LET last == call[c].outcomes[Len(call[c].outcomes)]
  IN IF last.kind = "failure"
       THEN [kind |-> "error", response |-> NoResponse, data |-> Undefined,
             error |-> last.error, message |-> NoMessage]
     ELSE IF ~ResponseOk(last.response)
       THEN GraphQLClientError(HttpErrorMessage(last.response), last.response)
     ELSE IF ~BodyTable[last.response.body].parses
       THEN GraphQLClientError(ParseErrorMessage, last.response)
     ELSE [kind |-> "data", response |-> last.response,
           data |-> BodyTable[last.response.body].data, error |-> "none", message |-> NoMessage]

(***************************************************************************)
(* C26: two calls running on one client under any interleaving are         *)
(* independent: the requests each call issues are determined by the        *)
(* configuration, the call's own operation and options and the answers to  *)
(* its own requests, and so is the result it returns.                      *)
(***************************************************************************)
C26_CallsAreIndependent ==
  \A c \in CallIds :
    /\ call[c].requests = OwnRequests(c)
    /\ \A i \in 1..Len(call[c].outcomes) :
         call[c].outcomes[i].kind = "response" => call[c].outcomes[i].response.req = i
    /\ \A i \in 1..Len(call[c].hookLog) : call[c].hookLog[i] = call[c].response
    /\ IF call[c].pc = "done"
         THEN /\ call[c].result.kind = OwnResult(c).kind
              /\ call[c].result.response = OwnResult(c).response
              /\ call[c].result.error = OwnResult(c).error
              /\ call[c].result.message = OwnResult(c).message
              /\ JsonEqual(call[c].result.data, OwnResult(c).data)
         ELSE call[c].result = NoResult

\* call 1 is waiting for the answer to its fallback POST while call 2, with another
\* operation, has just got the answer to its GET
C26_Witness ==
  /\ call[1].pc = "awaitPost"
  /\ Len(call[1].requests) = 2
  /\ call[2].pc = "gotGet"
  /\ call[1].operation.documentId.t # call[2].operation.documentId.t
  /\ call[2].outcomes[1].kind = "response"
  /\ call[2].outcomes[1].response.body # call[1].outcomes[1].response.body

\* the GET of the APQ query path of call c was aborted while in flight
GetAborted(c) == OnApqPath(c) /\ Rejected(c, 1) /\ call[c].outcomes[1].error = "abort"

AbortPropagated(c) ==
  /\ call[c].pc = "done"
  /\ call[c].result.kind = "error"
  /\ call[c].result.error = "abort"
  /\ Len(call[c].requests) = 1

(***************************************************************************)
(* C27: when the in-flight GET of the APQ query path is aborted, no        *)
(* fallback POST is ever issued, and the call ends by raising the abort    *)
(* to the caller.                                                          *)
(***************************************************************************)
C27_AbortPropagates ==
  /\ [](\A c \in CallIds :
          GetAborted(c) =>
            /\ Len(call[c].requests) = 1
            /\ call[c].pc \in {"gotGet", "done"}
            /\ call[c].pc = "done" => AbortPropagated(c))
  /\ \A c \in CallIds : GetAborted(c) ~> AbortPropagated(c)

\* the GET was aborted and the call ended with the abort after that one request
C27_Witness ==
  \E c \in CallIds :
    /\ GetAborted(c)
    /\ AbortPropagated(c)
    /\ call[c].requests[1].method = "GET"

(***************************************************************************)
(* C28 as stated: on the APQ query path a GET that was answered with a     *)
(* non-2xx status, that failed, or that was answered not-found is          *)
(* discarded for the POST fallback, and then only the outcome of the POST  *)
(* reaches the caller: the response given to the onResponse hook, the      *)
(* value returned and the error raised all come from the POST, and neither *)
(* the response nor the error of the GET is seen outside.                  *)
(***************************************************************************)
C28_OnlyFinalOutcomeCrosses ==
  \A c \in CallIds :
    OnApqPath(c) =>
      /\ Len(call[c].requests) = 2 =>
           /\ \A i \in 1..Len(call[c].hookLog) : call[c].hookLog[i].req = 2
           /\ call[c].response.req \in {0, 2}
           /\ call[c].pc = "done" =>
                /\ call[c].result.kind = "error" =>
                     Rejected(c, 2) /\ call[c].result.error = call[c].outcomes[2].error
                /\ call[c].result.kind # "error" =>
                     Answered(c, 2) /\ call[c].result.response = call[c].outcomes[2].response
      /\ ( \/ Rejected(c, 1)
           \/ Answered(c, 1) /\ ~ResponseOk(call[c].outcomes[1].response)
           \/ Answered(c, 1) /\ BodyIsNotFound(call[c].outcomes[1].response.body) ) =>
             /\ call[c].response.req # 1
             /\ call[c].result.response.req # 1
             /\ \A i \in 1..Len(call[c].hookLog) : call[c].hookLog[i].req # 1
             /\ call[c].pc = "done" => Len(call[c].requests) = 2

(***************************************************************************)
(* C29: the response a strategy returns has an unread body.  The           *)
(* inspection of the GET answer and the onResponse hook read copies only,  *)
(* so until the final JSON read the body of the returned response is       *)
(* unused, and a call whose returned response is ok with a JSON body ends  *)
(* with the parsed data, also when the hook read its copy to the end.      *)
(***************************************************************************)
C29_ReturnedBodyUnconsumed ==
  \A c \in CallIds :
    /\ call[c].pc \in {"process", "check"} => ~call[c].bodyUsed
    /\ ( /\ call[c].pc = "done"
         /\ call[c].response.req # 0
         /\ ResponseOk(call[c].response)
         /\ BodyTable[call[c].response.body].parses ) =>
           /\ call[c].result.kind = "data"
           /\ call[c].result.message = NoMessage

\* a GET answer was inspected and returned, the hook read its copy to the end, and the
\* final JSON read of the answer gave the data
C29_Witness ==
  \E c \in CallIds :
    /\ call[c].pc = "done"
    /\ call[c].cloneReads = <<"inspection", "hook">>
    /\ call[c].response.req = 1
    /\ call[c].requests[1].method = "GET"
    /\ call[c].result.kind = "data"
    /\ call[c].result.data.t = "object"

(***************************************************************************)
(* C30: the extraction of the operation name never fails.  For every       *)
(* document text createOperation gives an operation whose operationName    *)
(* is a non-empty string, the fixed label "(GraphQL)" when the text names  *)
(* no operation and the matched name otherwise, and the op parameter of    *)
(* the GET URL built from it is set to that non-empty name.                *)
(***************************************************************************)
NamesNoOperation(document) == \A i \in 1..Len(document) : ~RegexMatchAt(document, i)

C30_OperationNameNeverEmpty ==
  /\ probe.stage \in {"operation", "url"} =>
       /\ Len(probe.operation.operationName) > 0
       /\ NamesNoOperation(probe.document) => probe.operation.operationName = FallbackName
       /\ ~NamesNoOperation(probe.document) =>
            \A i \in 1..Len(probe.operation.operationName) :
              probe.operation.operationName[i] \in NameChars
  /\ probe.stage = "url" =>
       /\ "op" \in DOMAIN probe.url.searchParams
       /\ probe.url.searchParams["op"].t = "string"
       /\ Len(probe.url.searchParams["op"].v) > 0
       /\ probe.url.searchParams["op"].v = probe.operation.operationName

\* a URL was built for a document that names no operation: op is the fixed label
C30_Witness ==
  /\ probe.stage = "url"
  /\ probe.document = DocKeywordOnly
  /\ NamesNoOperation(probe.document)
  /\ probe.url.searchParams["op"].v = FallbackName

\* the fetch call c was made
Started(c) == call[c].pc \notin {"unused", "idle"}

\* the call ended with a returned value or a raised error
Terminated(c) ==
  /\ call[c].pc = "done"
  /\ call[c].result.kind \in {"data", "error", "GraphQLClientError"}

(***************************************************************************)
(* C31: when every transport call and every hook completes, every fetch    *)
(* call that was made terminates, with exactly one outcome (the returned   *)
(* value or the raised error, which never changes afterwards) and after at *)
(* most two transport calls.                                               *)
(***************************************************************************)
C31_EveryCallTerminates ==
  /\ [](\A c \in CallIds :
          /\ Len(call[c].requests) <= 2
          /\ Len(call[c].outcomes) <= Len(call[c].requests)
          /\ (call[c].result.kind # "none") <=> (call[c].pc = "done")
          /\ call[c].pc = "done" => Terminated(c))
  /\ [][\A c \in CallIds : call[c].pc = "done" => call'[c] = call[c]]_vars
  /\ \A c \in CallIds : Started(c) ~> Terminated(c)

\* a call ended after two transport calls, the second one after a discarded GET
C31_Witness ==
  \E c \in CallIds :
    /\ Terminated(c)
    /\ Len(call[c].requests) = 2
    /\ Len(call[c].outcomes) = 2
    /\ call[c].requests[1].method = "GET"

(***************************************************************************)
(* C32: within one call, when the GET URL and the body of the fallback     *)
(* POST both carry the persisted-query extension, the two carry the same   *)
(* sha256Hash, and it is the hash of the document text that the POST body  *)
(* sends as query.                                                         *)
(***************************************************************************)
C32_SameHashOnGetAndFallback ==
  \A c \in CallIds :
    ( /\ OnApqPath(c)
      /\ Len(call[c].requests) = 2
      /\ UrlHas(call[c].requests[1], "extensions")
      /\ BodyHas(call[c].requests[2], "extensions") ) =>
        LET onGet == Sha256HashOf(call[c].requests[1].url.searchParams["extensions"].json)
            onPost == Sha256HashOf(BodyField(call[c].requests[2], "extensions"))
        IN /\ onGet.t = "string" /\ onPost.t = "string"
           /\ onGet.v = onPost.v
           /\ BodyHas(call[c].requests[2], "query")
           /\ BodyField(call[c].requests[2], "query").t = "string"
           /\ onPost.v = Sha256Hex(BodyField(call[c].requests[2], "query").v)

\* a fallback POST with the extension, after a GET with the extension, for a document
\* that starts with blanks
C32_Witness ==
  \E c \in CallIds :
    /\ OnApqPath(c)
    /\ Len(call[c].requests) = 2
    /\ UrlHas(call[c].requests[1], "extensions")
    /\ BodyHas(call[c].requests[2], "extensions")
    /\ call[c].operation.document = DocQueryLead
    /\ Sha256HashOf(BodyField(call[c].requests[2], "extensions")).v = Sha256Hex(DocQueryLead)

(***************************************************************************)
(* C33: executing a strategy changes neither the operation of the call     *)
(* (document, documentId, variables, operationName) nor the flags of the   *)
(* configuration.  Whatever GET, detection and fallback steps were taken,  *)
(* the operation holds the non-empty document text and the documentId it   *)
(* was created with, and the fallback POST sends exactly that document.    *)
(***************************************************************************)
C33_StrategyLeavesOperationUnchanged ==
  /\ [][ /\ config' = config
         /\ \A c \in CallIds :
              Started(c) =>
                /\ call'[c].operation.document = call[c].operation.document
                /\ call'[c].operation.operationName = call[c].operation.operationName
                /\ JsonEqual(call'[c].operation.documentId, call[c].operation.documentId)
                /\ JsonEqual(call'[c].operation.variables, call[c].operation.variables)
                /\ call'[c].documentType = call[c].documentType ]_vars
  /\ [](\A c \in CallIds :
          /\ Started(c) => Len(call[c].operation.document) > 0
          /\ (OnApqPath(c) /\ Len(call[c].requests) = 2) =>
               /\ CarriesQuery(call[c].requests[2], c)
               /\ HasDocumentId(c) => CarriesDocumentId(call[c].requests[2], c))

\* a call with a documentId went through GET, detection and fallback, and its fallback
\* POST sent the document as it was given, blanks included
C33_Witness ==
  \E c \in CallIds :
    /\ call[c].pc = "done"
    /\ OnApqPath(c) /\ HasDocumentId(c)
    /\ Len(call[c].requests) = 2
    /\ call[c].operation.document = DocQueryLead
    /\ BodyField(call[c].requests[2], "query").v = DocQueryLead

(***************************************************************************)
(* C34 as stated: every header of the fetch options handed to the strategy *)
(* (the default headers of the client, the headers of the call and what    *)
(* the onRequest hook set, such as Authorization) is on the wire of every  *)
(* request of the call, POST or GET, and every POST carries                *)
(* Content-Type: application/json.                                         *)
(***************************************************************************)
C34_EveryHeaderOnEveryRequest ==
  \A c \in CallIds :
    \A i \in 1..Len(call[c].requests) :
      LET sent == WireHeaders(call[c].requests[i])
          given == call[c].fetchOptions.headers.entries
      IN /\ \A n \in DOMAIN given : n \in DOMAIN sent /\ sent[n] = given[n]
         /\ call[c].requests[i].method = "POST" =>
              "content-type" \in DOMAIN sent /\ sent["content-type"] = "application/json"

\* the document of call c, trimmed, starts with the literal "query"
StartsWithQuery(c) == StartsWith(Trim(call[c].operation.document), KwQuery)

(***************************************************************************)
(* C35: with persisted operations enabled the route of a call depends only *)
(* on whether its trimmed document starts with the literal "query".  The   *)
(* first request is the APQ GET exactly when it does; every other document *)
(* (a mutation, a subscription, the shorthand "{ ... }") is sent as one    *)
(* POST with the body of the mutation strategy, and no GET is attempted.   *)
(***************************************************************************)
C35_RoutingByQueryPrefix ==
  \A c \in CallIds :
    (PastSelect(c) /\ ~config.disablePersistedOperations) =>
      /\ Len(call[c].requests) >= 1
      /\ call[c].requests[1].method = "GET" <=> StartsWithQuery(c)
      /\ ~StartsWithQuery(c) =>
           /\ Len(call[c].requests) = 1
           /\ call[c].requests[1]
                = PostRequest(Endpoint,
                              mutationPostPayload(call[c].operation, config.alwaysIncludeQuery),
                              call[c].fetchOptions)

\* the shorthand query "{ ... }" was sent as a single POST, and the call returned
C35_Witness ==
  \E c \in CallIds :
    /\ ~config.disablePersistedOperations
    /\ call[c].pc = "done"
    /\ call[c].operation.document = DocShorthand
    /\ Len(call[c].requests) = 1
    /\ call[c].requests[1].method = "POST"
    /\ call[c].result.kind = "data"

\* the strategy of call c has produced a response, and the call has ended
EndedOnResponse(c) == call[c].pc = "done" /\ call[c].response.req # 0

C37_SpanEndedOnceOnEveryOutcome ==
  \A c \in CallIds :
    /\ call[c].spanEnds <= 1
    /\ call[c].pc # "done" => call[c].spanEnds = 0
    /\ call[c].pc = "done" => call[c].spanEnds = 1

\* body b of BodyTable is JSON with a GraphQL errors array, none of whose elements is a
\* not-found signal
BodyHasOtherErrors(b) ==
  /\ BodyTable[b].parses
  /\ HasErrorsArray(BodyTable[b].data)
  /\ Len(BodyTable[b].data.v.errors.v) > 0
  /\ ~HasNotFoundElement(BodyTable[b].data)

(***************************************************************************)
(* C38: an OK final response whose JSON body carries a GraphQL errors      *)
(* array that is not a not-found signal (such as an authentication error   *)
(* answered with status 200) is returned to the caller as the result of    *)
(* fetch, which raises no error for it; when it is the answer to the APQ   *)
(* GET it triggers no fallback POST.                                       *)
(***************************************************************************)
C38_GraphQLErrorsAreReturned ==
  \A c \in CallIds :
    /\ ( /\ EndedOnResponse(c)
         /\ ResponseOk(call[c].response)
         /\ BodyHasOtherErrors(call[c].response.body) ) =>
           /\ call[c].result.kind = "data"
           /\ JsonEqual(call[c].result.data, BodyTable[call[c].response.body].data)
    /\ ( /\ OnApqPath(c) /\ PastGet(c)
         /\ Answered(c, 1)
         /\ ResponseOk(call[c].outcomes[1].response)
         /\ BodyHasOtherErrors(call[c].outcomes[1].response.body) ) =>
           /\ Len(call[c].requests) = 1
           /\ call[c].response = call[c].outcomes[1].response

\* the APQ GET was answered 200 with an "Unauthorized" error; the call returned that body
\* after the one request
C38_Witness ==
  \E c \in CallIds :
    /\ OnApqPath(c)
    /\ call[c].pc = "done"
    /\ call[c].response.status = 200
    /\ call[c].response.body = 4
    /\ BodyHasOtherErrors(4)
    /\ Len(call[c].requests) = 1
    /\ call[c].result.kind = "data"
    /\ HasErrorsArray(call[c].result.data)

\* inspecting body b of BodyTable raises an exception: it is not JSON, or the detector
\* throws on it
InspectionRaises(b) ==
  \/ ~BodyTable[b].parses
  \/ isPersistedQueryNotFoundError(BodyTable[b].data) = "throw"

(***************************************************************************)
(* C39: on the APQ query path every exception raised while a 2xx GET       *)
(* answer is inspected, a JSON parse failure as well as an exception       *)
(* thrown inside the not-found detector, has the same effect: the GET      *)
(* answer is returned as the final response, no fallback POST is issued    *)
(* and the exception does not reach the caller.                            *)
(***************************************************************************)
C39_InspectionExceptionsAbsorbed ==
  \A c \in CallIds :
    ( /\ OnApqPath(c) /\ PastGet(c)
      /\ Answered(c, 1)
      /\ ResponseOk(call[c].outcomes[1].response)
      /\ InspectionRaises(call[c].outcomes[1].response.body) ) =>
        /\ Len(call[c].requests) = 1
        /\ call[c].response = call[c].outcomes[1].response
        /\ call[c].result.kind # "error"
        /\ call[c].pc = "done" =>
             /\ call[c].result.response = call[c].outcomes[1].response
             /\ BodyTable[call[c].response.body].parses <=> call[c].result.kind = "data"

\* the detector threw on the body of a 200 GET answer, and the call returned that body
\* after the one request
C39_Witness ==
  \E c \in CallIds :
    /\ OnApqPath(c)
    /\ call[c].pc = "done"
    /\ Answered(c, 1)
    /\ ResponseOk(call[c].outcomes[1].response)
    /\ isPersistedQueryNotFoundError(BodyTable[call[c].outcomes[1].response.body].data) = "throw"
    /\ Len(call[c].requests) = 1
    /\ call[c].result.kind = "data"
====
